---- MODULE Spec2Model ----
(***************************************************************************)
(* Verification model of the DirtySats fleet manager: the thermal          *)
(* auto-tuning subsystem (thermal.py), the alert manager (alerts.py) and   *)
(* the fleet orchestrator with its HTTP handlers (app.py).                 *)
(*                                                                         *)
(* Time is counted in units of 30 seconds (one monitoring interval).       *)
(* Optional values (Python None) are sequences: <<>> is None, <<v>> is v.  *)
(***************************************************************************)
EXTENDS Integers, Sequences, FiniteSets, TLC

VARIABLES
    now,                      \* datetime.now(), in 30 s units
    thermal_states,           \* ThermalManager.thermal_states: ip -> ThermalState
    global_auto_tune_enabled, \* ThermalManager.global_auto_tune_enabled
    ret,                      \* value returned by calculate_optimal_frequency when
                              \* it was the last operation, NoRet otherwise
    emergency_at,             \* ip -> time of the last emergency shutdown reported
    alert_mgr,                \* the AlertManager: config, last_alerts, alert_history,
                              \* the alert table of the database, the messages handed
                              \* to Telegram and every alert handed to send_alert
    clock_origin,             \* wall-clock time of day at now = 0, in 30 s units
    miners,                   \* FleetManager.miners: ip -> Miner
    miner_alert_states,       \* FleetManager.miner_alert_states
    overheat_recovery_states, \* FleetManager.overheat_recovery_states (its keys)
    monitor,                  \* the monitoring loop: its phase and the miners of
                              \* miners_snapshot that are still to be polled
    net_calls,                \* the device network calls issued by the last step
    last_poll,                \* the miner and status of the poll made by the last step,
                              \* and what miner.restart() returned if it was called
    streak,                   \* ip -> the run of failed polls the miner is in
    http,                     \* the last HTTP request and the response to it
    monitoring_active,        \* FleetManager.monitoring_active
    monitoring_thread,        \* FleetManager.monitoring_thread
    loops,                    \* the monitor_loop threads started so far: where each is
    threads,                  \* request thread -> where it is in its handler
    lock,                     \* FleetManager.lock: the thread that holds it
    db,                       \* the tables of the database the energy components
                              \* use: energy_rates and mining_schedules
    btc_fetcher               \* BitcoinDataFetcher: per quantity its cache, the time
                              \* of the cache and the last value fetched successfully

thermalVars == <<thermal_states, global_auto_tune_enabled, ret, emergency_at>>
alertVars == <<alert_mgr, clock_origin>>
fleetVars == <<miners, miner_alert_states, overheat_recovery_states, monitor,
               net_calls, last_poll, streak>>
serverVars == <<http, monitoring_active, monitoring_thread, loops, threads, lock, db, btc_fetcher>>
vars == <<now, thermalVars, alertVars, fleetVars, serverVars>>

\* What an action of one component leaves alone
nonThermalVars == <<alertVars, fleetVars, serverVars>>
nonAlertVars == <<thermalVars, fleetVars, serverVars>>

None == <<>>
Some(v) == <<v>>
Val(o) == o[1]

Max(a, b) == IF a >= b THEN a ELSE b
Min(a, b) == IF a <= b THEN a ELSE b

(***************************************************************************)
(* Bounds of the model                                                     *)
(***************************************************************************)
MaxTime == 30
MaxAlerts == 2
MaxPollAlerts == 3
MaxOfflineTime == 31
MaxOfflineAlerts == 2
MaxLoops == 2

(***************************************************************************)
(* thermal.py                                                              *)
(***************************************************************************)
MINER_PROFILES ==
    [BitAxe |->
        [min_freq |-> 400, max_freq |-> 600, stock_freq |-> 485,
         optimal_temp |-> 55, warning_temp |-> 62, critical_temp |-> 68,
         temp_hysteresis |-> 2, freq_step |-> 15],
     BitAxeMax |->
        [min_freq |-> 400, max_freq |-> 600, stock_freq |-> 485,
         optimal_temp |-> 55, warning_temp |-> 62, critical_temp |-> 68,
         temp_hysteresis |-> 2, freq_step |-> 15],
     Antminer |->
        [min_freq |-> 400, max_freq |-> 650, stock_freq |-> 550,
         optimal_temp |-> 65, warning_temp |-> 75, critical_temp |-> 80,
         temp_hysteresis |-> 3, freq_step |-> 25],
     Unknown |->
        [min_freq |-> 400, max_freq |-> 500, stock_freq |-> 450,
         optimal_temp |-> 60, warning_temp |-> 65, critical_temp |-> 70,
         temp_hysteresis |-> 2, freq_step |-> 10]]

\* config.get_thermal_profile_key on the device types of the model
get_thermal_profile_key(miner_type) ==
    CASE miner_type = "BitAxe Max" -> "BitAxeMax"
      [] miner_type = "BitAxe" -> "BitAxe"
      [] miner_type = "Antminer S19" -> "Antminer"
      [] OTHER -> "Unknown"

\* config.is_esp_miner on the device types of the model
is_esp_miner(miner_type) == miner_type \in {"BitAxe", "BitAxe Max"}

cooldown_duration == 20
adjustment_interval == 1
max_fan_speed == 100
min_fan_speed == 20
fan_step == 10

\* ThermalState.__init__
ThermalState(miner_type) ==
    [miner_type |-> miner_type,
     profile |-> MINER_PROFILES[get_thermal_profile_key(miner_type)],
     current_freq |-> MINER_PROFILES[get_thermal_profile_key(miner_type)].stock_freq,
     current_temp |-> 0,
     last_temp |-> 0,
     temp_trend |-> 0,
     current_fan_speed |-> 50,
     in_emergency_cooldown |-> FALSE,
     cooldown_started |-> None,
     auto_tune_enabled |-> TRUE,
     last_adjustment |-> None]

\* ThermalState.update_temperature
update_temperature(s, temp) ==
    [s EXCEPT !.last_temp = s.current_temp,
              !.current_temp = temp,
              !.temp_trend = IF s.current_temp > 0 THEN temp - s.current_temp
                             ELSE s.temp_trend]

\* check_emergency_cooldown with the cooldown cut to half its duration
check_emergency_cooldown_short(s, t) ==
    IF ~s.in_emergency_cooldown
    THEN [state |-> s, result |-> FALSE]
    ELSE IF t - Val(s.cooldown_started) >= cooldown_duration \div 2
         THEN [state |-> [s EXCEPT !.in_emergency_cooldown = FALSE,
                                   !.cooldown_started = None],
               result |-> FALSE]
         ELSE [state |-> s, result |-> TRUE]

\* ThermalState.check_emergency_cooldown: the state it leaves and its result
check_emergency_cooldown(s, t) ==
    IF ~s.in_emergency_cooldown
    THEN [state |-> s, result |-> FALSE]
    ELSE IF t - Val(s.cooldown_started) >= cooldown_duration
         THEN [state |-> [s EXCEPT !.in_emergency_cooldown = FALSE,
                                   !.cooldown_started = None],
               result |-> FALSE]
         ELSE [state |-> s, result |-> TRUE]

\* ThermalState.trigger_emergency_shutdown
trigger_emergency_shutdown(s, t) ==
    [s EXCEPT !.in_emergency_cooldown = TRUE,
              !.cooldown_started = Some(t),
              !.current_freq = 0]

\* A rate limit that never holds an adjustment back
can_adjust_frequency_always(s, t) == TRUE

\* ThermalState.can_adjust_frequency
can_adjust_frequency(s, t) ==
    IF s.last_adjustment = None THEN TRUE
    ELSE t - Val(s.last_adjustment) >= adjustment_interval

\* ThermalManager.update_miner_stats on a registered miner
update_miner_stats_state(s, temperature, fan_speed, frequency) ==
    LET s1 == update_temperature(s, temperature)
        s2 == IF frequency # None /\ Val(frequency) > 0
              THEN [s1 EXCEPT !.current_freq = Val(frequency)]
              ELSE s1
    IN IF fan_speed # None
       THEN [s2 EXCEPT !.current_fan_speed = Val(fan_speed)]
       ELSE s2

\* An adjustment that lowers the frequency above the dead band whatever
\* the fan speed
thermal_target_frequency_first(s) ==
    IF s.current_temp > s.profile.optimal_temp + s.profile.temp_hysteresis
    THEN [freq |-> Max(s.profile.min_freq, s.current_freq - s.profile.freq_step),
          fan |-> s.current_fan_speed,
          reason |-> "Above optimal, fan at max, reducing frequency"]
    ELSE [freq |-> s.current_freq, fan |-> s.current_fan_speed,
          reason |-> "In optimal range"]

\* The fan-first adjustment with a dead band of width zero above the
\* optimal temperature
thermal_target_no_hysteresis(s) ==
    IF s.current_temp > s.profile.optimal_temp /\ s.current_fan_speed < max_fan_speed
    THEN [freq |-> s.current_freq,
          fan |-> Min(max_fan_speed, s.current_fan_speed + fan_step),
          reason |-> "Above optimal, increasing fan"]
    ELSE [freq |-> s.current_freq, fan |-> s.current_fan_speed,
          reason |-> "In optimal range"]

\* The temperature-based adjustment of calculate_optimal_frequency
\* (lines 546-591): target frequency, target fan and reason.
thermal_target(s) ==
    LET profile == s.profile
        current_freq == s.current_freq
        current_temp == s.current_temp
        current_fan == s.current_fan_speed
    IN
    IF current_temp >= profile.warning_temp
    THEN [freq |-> Max(profile.min_freq, current_freq - profile.freq_step * 2),
          fan |-> max_fan_speed,
          reason |-> "WARNING: max fan + reducing frequency"]
    ELSE IF current_temp > profile.optimal_temp + profile.temp_hysteresis
    THEN IF current_fan < max_fan_speed
         THEN [freq |-> current_freq,
               fan |-> Min(max_fan_speed, current_fan + fan_step),
               reason |-> "Above optimal, increasing fan"]
         ELSE [freq |-> Max(profile.min_freq, current_freq - profile.freq_step),
               fan |-> current_fan,
               reason |-> "Above optimal, fan at max, reducing frequency"]
    ELSE IF current_temp < profile.optimal_temp - profile.temp_hysteresis
    THEN IF s.temp_trend <= 1
         THEN IF current_fan > min_fan_speed + 10
              THEN [freq |-> current_freq,
                    fan |-> Max(min_fan_speed, current_fan - fan_step),
                    reason |-> "Below optimal, reducing fan"]
              ELSE IF current_freq < profile.max_freq
              THEN [freq |-> Min(profile.max_freq, current_freq + profile.freq_step),
                    fan |-> current_fan,
                    reason |-> "Below optimal, increasing frequency"]
              ELSE [freq |-> current_freq, fan |-> current_fan,
                    reason |-> "Below optimal, already at max frequency"]
         ELSE [freq |-> current_freq, fan |-> current_fan,
               reason |-> "Below optimal but temp rising, holding"]
    ELSE [freq |-> current_freq, fan |-> current_fan,
          reason |-> "In optimal range"]

\* The evaluation without the test of the two auto-tune switches
calculate_optimal_frequency_state_always_tuning(s, g, t) ==
    LET cd == check_emergency_cooldown(s, t)
        s1 == cd.state
        tg == thermal_target(s1)
    IN
    IF cd.result
    THEN [state |-> s1,
          ret |-> [freq |-> 0, fan |-> Some(100),
                   reason |-> "Emergency cooldown in progress"]]
    ELSE IF s1.current_temp >= s1.profile.critical_temp
    THEN [state |-> trigger_emergency_shutdown(s1, t),
          ret |-> [freq |-> 0, fan |-> Some(100),
                   reason |-> "EMERGENCY: Critical temp"]]
    ELSE IF ~can_adjust_frequency(s1, t)
    THEN [state |-> s1,
          ret |-> [freq |-> s1.current_freq, fan |-> None,
                   reason |-> "Too soon since last adjustment"]]
    ELSE [state |-> [s1 EXCEPT !.current_freq = tg.freq,
                               !.current_fan_speed = tg.fan,
                               !.last_adjustment =
                                   IF tg.freq # s1.current_freq
                                      \/ tg.fan # s1.current_fan_speed
                                   THEN Some(t) ELSE s1.last_adjustment],
          ret |-> [freq |-> tg.freq,
                   fan |-> IF tg.fan # s1.current_fan_speed
                           THEN Some(tg.fan) ELSE None,
                   reason |-> tg.reason]]

\* The evaluation with the auto-tune switches and the rate limit tested
\* before the critical temperature
calculate_optimal_frequency_state_switches_first(s, g, t) ==
    LET cd == check_emergency_cooldown(s, t)
        s1 == cd.state
    IN
    IF cd.result
    THEN [state |-> s1,
          ret |-> [freq |-> 0, fan |-> Some(100),
                   reason |-> "Emergency cooldown in progress"]]
    ELSE IF ~s1.auto_tune_enabled \/ ~g
    THEN [state |-> s1,
          ret |-> [freq |-> s1.current_freq, fan |-> None,
                   reason |-> "Auto-tune disabled"]]
    ELSE IF ~can_adjust_frequency(s1, t)
    THEN [state |-> s1,
          ret |-> [freq |-> s1.current_freq, fan |-> None,
                   reason |-> "Too soon since last adjustment"]]
    ELSE IF s1.current_temp >= s1.profile.critical_temp
    THEN [state |-> trigger_emergency_shutdown(s1, t),
          ret |-> [freq |-> 0, fan |-> Some(100),
                   reason |-> "EMERGENCY: Critical temp"]]
    ELSE [state |-> s1,
          ret |-> [freq |-> s1.current_freq, fan |-> None,
                   reason |-> "In optimal range"]]

\* ThermalManager.calculate_optimal_frequency on a registered miner:
\* the state it leaves and the tuple it returns.
calculate_optimal_frequency_state(s, g, t) ==
    LET cd == check_emergency_cooldown(s, t)
        s1 == cd.state
    IN
    IF cd.result
    THEN [state |-> s1,
          ret |-> [freq |-> 0, fan |-> Some(100),
                   reason |-> "Emergency cooldown in progress"]]
    ELSE IF s1.current_temp >= s1.profile.critical_temp
    THEN [state |-> trigger_emergency_shutdown(s1, t),
          ret |-> [freq |-> 0, fan |-> Some(100),
                   reason |-> "EMERGENCY: Critical temp"]]
    ELSE IF ~s1.auto_tune_enabled \/ ~g
    THEN [state |-> s1,
          ret |-> [freq |-> s1.current_freq, fan |-> None,
                   reason |-> "Auto-tune disabled"]]
    ELSE IF ~can_adjust_frequency(s1, t)
    THEN [state |-> s1,
          ret |-> [freq |-> s1.current_freq, fan |-> None,
                   reason |-> "Too soon since last adjustment"]]
    ELSE
      LET tg == thermal_target(s1)
          changed == tg.freq # s1.current_freq \/ tg.fan # s1.current_fan_speed
          s2 == [s1 EXCEPT !.current_freq = tg.freq,
                           !.current_fan_speed = tg.fan,
                           !.last_adjustment =
                               IF changed THEN Some(t) ELSE s1.last_adjustment]
      IN [state |-> s2,
          ret |-> [freq |-> tg.freq,
                   fan |-> IF tg.fan # s1.current_fan_speed
                           THEN Some(tg.fan) ELSE None,
                   reason |-> tg.reason]]

\* ThermalManager.force_frequency on a registered miner
force_frequency_state(s, frequency) ==
    [s EXCEPT !.current_freq =
                  Max(s.profile.min_freq, Min(s.profile.max_freq, frequency)),
              !.auto_tune_enabled = FALSE]

\* ThermalManager.reset_miner on a registered miner
reset_miner_state(s) ==
    [s EXCEPT !.current_freq = s.profile.stock_freq,
              !.auto_tune_enabled = TRUE,
              !.in_emergency_cooldown = FALSE,
              !.cooldown_started = None]

NoRet == [freq |-> 0, fan |-> None, reason |-> "none"]




EmergencyReasons == {"Emergency cooldown in progress", "EMERGENCY: Critical temp"}

(***************************************************************************)
(* alerts.py                                                               *)
(***************************************************************************)
alert_cooldown == 30

AlertTypes ==
    {"miner_offline", "high_temperature", "critical_temperature", "low_hashrate",
     "unprofitable", "emergency_shutdown", "miner_online", "weather_warning",
     "overheat_recovery"}

\* AlertConfig.__init__; a time of day "HH:MM" is the pair <<HH, MM>>
AlertConfig ==
    [telegram_enabled |-> FALSE,
     alert_on_offline |-> TRUE,
     alert_on_high_temp |-> TRUE,
     alert_on_emergency_shutdown |-> TRUE,
     alert_on_miner_online |-> FALSE,
     enabled_alert_types |->
         [t \in AlertTypes |-> t \notin {"unprofitable", "miner_online"}],
     quiet_hours_enabled |-> FALSE,
     quiet_hours_start |-> <<22, 0>>,
     quiet_hours_end |-> <<7, 0>>]

\* AlertManager.__init__ with an empty settings table
AlertManager ==
    [config |-> AlertConfig,
     last_alerts |-> <<>>,
     alert_history |-> <<>>,
     db_alert_history |-> <<>>,
     telegram |-> <<>>,
     fired |-> <<>>]

\* Alert.__init__; miner_ip "" is None; id numbers the alerts in the order
\* in which they are created
Alert(alert_type, level, miner_ip, id, t) ==
    [alert_type |-> alert_type, level |-> level, miner_ip |-> miner_ip,
     id |-> id, timestamp |-> t]

\* The cooldown key of send_alert and should_send_alert
AlertKey(alert) ==
    <<alert.alert_type, IF alert.miner_ip = "" THEN "global" ELSE alert.miner_ip>>

\* datetime.now().strftime("%H:%M") parsed back into a time of day
TimeOfDay(t, origin) ==
    LET minutes == ((origin + t) \div 2) % 1440
    IN <<minutes \div 60, minutes % 60>>

\* datetime.strptime(x, "%H:%M") succeeds
ValidHM(hm) == hm[1] \in 0..23 /\ hm[2] \in 0..59

\* Comparison of datetime.time values
TimeLeq(a, b) == a[1] < b[1] \/ (a[1] = b[1] /\ a[2] <= b[2])
TimeLt(a, b) == a[1] < b[1] \/ (a[1] = b[1] /\ a[2] < b[2])

\* is_in_quiet_hours with the overnight test requiring both comparisons
is_in_quiet_hours_and(cfg, t, origin) ==
    IF ~cfg.quiet_hours_enabled THEN FALSE
    ELSE IF ~ValidHM(cfg.quiet_hours_start) \/ ~ValidHM(cfg.quiet_hours_end)
    THEN FALSE
    ELSE LET now_dt == TimeOfDay(t, origin)
             start_dt == cfg.quiet_hours_start
             end_dt == cfg.quiet_hours_end
         IN IF TimeLeq(start_dt, end_dt)
            THEN TimeLeq(start_dt, now_dt) /\ TimeLt(now_dt, end_dt)
            ELSE TimeLeq(start_dt, now_dt) /\ TimeLt(now_dt, end_dt)

\* AlertManager.is_in_quiet_hours
is_in_quiet_hours(cfg, t, origin) ==
    IF ~cfg.quiet_hours_enabled THEN FALSE
    ELSE IF ~ValidHM(cfg.quiet_hours_start) \/ ~ValidHM(cfg.quiet_hours_end)
    THEN FALSE
    ELSE LET now_dt == TimeOfDay(t, origin)
             start_dt == cfg.quiet_hours_start
             end_dt == cfg.quiet_hours_end
         IN IF TimeLeq(start_dt, end_dt)
            THEN TimeLeq(start_dt, now_dt) /\ TimeLt(now_dt, end_dt)
            ELSE TimeLeq(start_dt, now_dt) \/ TimeLt(now_dt, end_dt)

\* should_send_alert without the cooldown test
should_send_alert_always(am, alert, t) == TRUE

\* AlertManager.should_send_alert
should_send_alert(am, alert, t) ==
    LET key == AlertKey(alert)
    IN IF key \in DOMAIN am.last_alerts
       THEN IF t - am.last_alerts[key] < alert_cooldown THEN FALSE ELSE TRUE
       ELSE TRUE

\* send_alert forgetting when it sent the alert
SetLastAlert_skip(la, key, t) == la

\* last_alerts[key] = t
SetLastAlert(la, key, t) ==
    [k \in DOMAIN la \cup {key} |-> IF k = key THEN t ELSE la[k]]

\* AlertManager.send_alert: the AlertManager it leaves
send_alert(am0, alert, t, origin) ==
    LET am == [am0 EXCEPT !.fired = Append(@, alert)]
    IN
    IF ~am.config.enabled_alert_types[alert.alert_type]
    THEN am
    ELSE IF alert.level # "emergency" /\ is_in_quiet_hours(am.config, t, origin)
    THEN [am EXCEPT !.db_alert_history = Append(@, alert)]
    ELSE IF ~should_send_alert(am, alert, t)
    THEN am
    ELSE [am EXCEPT !.db_alert_history = Append(@, alert),
                    !.alert_history = Append(@, alert),
                    !.last_alerts = SetLastAlert(@, AlertKey(alert), t),
                    !.telegram = IF am.config.telegram_enabled
                                 THEN Append(@, alert) ELSE @]

NextAlertId(am) == Len(am.fired) + 1

\* AlertManager.alert_miner_offline
alert_miner_offline_am(am, miner_ip, t, origin) ==
    IF ~am.config.alert_on_offline THEN am
    ELSE send_alert(am, Alert("miner_offline", "warning", miner_ip,
                              NextAlertId(am), t), t, origin)

\* AlertManager.alert_miner_online
alert_miner_online_am(am, miner_ip, t, origin) ==
    IF ~am.config.alert_on_miner_online THEN am
    ELSE send_alert(am, Alert("miner_online", "info", miner_ip,
                              NextAlertId(am), t), t, origin)

\* AlertManager.alert_high_temperature
alert_high_temperature_am(am, miner_ip, t, origin) ==
    IF ~am.config.alert_on_high_temp THEN am
    ELSE send_alert(am, Alert("high_temperature", "warning", miner_ip,
                              NextAlertId(am), t), t, origin)

\* AlertManager.alert_emergency_shutdown
alert_emergency_shutdown_am(am, miner_ip, t, origin) ==
    IF ~am.config.alert_on_emergency_shutdown THEN am
    ELSE send_alert(am, Alert("emergency_shutdown", "emergency", miner_ip,
                              NextAlertId(am), t), t, origin)

\* A recovery that raises no alert
alert_overheat_recovery_am_silent(am, miner_ip, t, origin) == am

\* AlertManager.alert_overheat_recovery
alert_overheat_recovery_am(am, miner_ip, t, origin) ==
    send_alert(am, Alert("overheat_recovery", "info", miner_ip,
                         NextAlertId(am), t), t, origin)

\* AlertManager.alert_frequency_adjusted
alert_frequency_adjusted_am(am, miner_ip, t, origin) ==
    send_alert(am, Alert("critical_temperature", "critical", miner_ip,
                         NextAlertId(am), t), t, origin)

\* AlertManager.configure: kwargs is a function from the names of the
\* arguments that were passed to their values
configure_am(am, kwargs) ==
    LET has(k) == k \in DOMAIN kwargs
        c == am.config
    IN [am EXCEPT !.config =
        [c EXCEPT
          !.telegram_enabled =
              IF has("telegram_enabled") THEN kwargs["telegram_enabled"] ELSE @,
          !.enabled_alert_types =
              IF has("enabled_alert_types")
              THEN [ty \in AlertTypes |->
                       IF ty \in DOMAIN kwargs["enabled_alert_types"]
                       THEN kwargs["enabled_alert_types"][ty] ELSE @[ty]]
              ELSE @,
          !.quiet_hours_enabled =
              IF has("quiet_hours_enabled") THEN kwargs["quiet_hours_enabled"] ELSE @,
          !.quiet_hours_start =
              IF has("quiet_hours_start") THEN kwargs["quiet_hours_start"] ELSE @,
          !.quiet_hours_end =
              IF has("quiet_hours_end") THEN kwargs["quiet_hours_end"] ELSE @]]

\* The alert manager of a specification that raises no alerts
AlertsIdle ==
    /\ alert_mgr = AlertManager
    /\ clock_origin = 0

(***************************************************************************)
(* app.py: the fleet orchestrator                                          *)
(***************************************************************************)
ALERT_COOLDOWN == 30
OVERHEAT_AUTO_REBOOT == TRUE
OVERHEAT_RECOVERY_TEMP == 38

\* A status snapshot as the poll uses it
Status(status, temperature, frequency, fan_speed) ==
    [status |-> status, temperature |-> temperature,
     frequency |-> frequency, fan_speed |-> fan_speed]

\* Miner.__init__ and the is_mock flag set by the test seeding
Miner(miner_type, is_mock, last_status) ==
    [type |-> miner_type, is_mock |-> is_mock, last_status |-> last_status]

\* A device network call
NetCall(ip, op, settings) == [ip |-> ip, op |-> op, settings |-> settings]

NoPoll == [ip |-> "", status |-> "none", restart |-> None]
NoStreak == [start |-> None, before |-> "none", len |-> 0]

\* ThermalManager._get_profile
get_profile(miner_type) == MINER_PROFILES[get_thermal_profile_key(miner_type)]

\* ThermalManager.get_thermal_status: the dictionary it returns
get_thermal_status(ip, s) ==
    [miner_ip |-> ip,
     miner_type |-> s.miner_type,
     current_temp |-> s.current_temp,
     current_freq |-> s.current_freq,
     optimal_temp |-> s.profile.optimal_temp,
     critical_temp |-> s.profile.critical_temp,
     temp_trend |-> s.temp_trend,
     auto_tune_enabled |-> s.auto_tune_enabled,
     in_cooldown |-> s.in_emergency_cooldown]

\* dict.get(key) of a flag is truthy
GetFlag(d, key) == IF key \in DOMAIN d THEN d[key] ELSE FALSE

\* ThermalManager.register_miner
register_miner(ts, ip, miner_type) ==
    IF ip \in DOMAIN ts THEN ts
    ELSE [k \in DOMAIN ts \cup {ip} |->
             IF k = ip THEN ThermalState(miner_type) ELSE ts[k]]

\* A validation that passes every frequency on as it is
validate_frequency_unclamped(miner_type, freq) == freq

\* FleetManager._validate_frequency
validate_frequency(miner_type, freq) ==
    Max(get_profile(miner_type).min_freq,
        Min(get_profile(miner_type).max_freq, freq))

\* FleetManager._apply_frequency: the device calls it issues
apply_frequency(ip, miner_type, target_freq) ==
    IF is_esp_miner(miner_type)
    THEN IF target_freq = 0
         THEN <<NetCall(ip, "apply_settings", [frequency |-> 400])>>
         ELSE <<NetCall(ip, "apply_settings",
                        [frequency |-> validate_frequency(miner_type, target_freq)])>>
    ELSE <<>>

\* FleetManager._apply_fan_speed: the device calls it issues
apply_fan_speed(ip, miner_type, target_fan) ==
    IF is_esp_miner(miner_type)
    THEN <<NetCall(ip, "apply_settings",
                   [fanspeed |-> target_fan, autofanspeed |-> 0])>>
    ELSE <<>>

\* FleetManager._apply_stock_settings: the device calls it issues
apply_stock_settings(ip, miner_type) ==
    IF is_esp_miner(miner_type) /\ get_profile(miner_type).stock_freq > 0
    THEN <<NetCall(ip, "apply_settings",
                   [frequency |-> get_profile(miner_type).stock_freq])>>
    ELSE <<>>

\* status.get('fan_speed') or status.get('raw', {}).get('fanSpeedPercent'),
\* for a status whose raw payload carries no fan reading
StatusFan(status) ==
    IF status.fan_speed # None /\ Val(status.fan_speed) # 0
    THEN status.fan_speed ELSE None

\* status.get('frequency', 0)
StatusFreq(status) ==
    IF status.frequency # None THEN Val(status.frequency) ELSE 0

\* "emergency" in reason.lower() or "critical" in reason.lower()
MentionsEmergency(reason) == reason \in EmergencyReasons

\* The state of a FleetManager nothing has been registered with
FleetIdle ==
    /\ miners = <<>>
    /\ miner_alert_states = <<>>
    /\ overheat_recovery_states = {}
    /\ monitor = [phase |-> "stopped", pending |-> {}]
    /\ net_calls = <<>>
    /\ last_poll = NoPoll
    /\ streak = <<>>

NoRequest == [handler |-> "none", ips |-> <<>>, data |-> <<>>, code |-> 0]

\* BitcoinDataFetcher.__init__: the caches of the three quantities, with
\* the last successful fetch of each
NoCache == [cache |-> None, cache_time |-> None, fetched |-> None]
BitcoinDataFetcher ==
    [btc_price |-> NoCache, difficulty |-> NoCache, block_height |-> NoCache]

\* The database with no energy rates and no mining schedules
NoDb == [energy_rates |-> <<>>, mining_schedules |-> <<>>]

\* The HTTP server before any request, with no handler thread running
ServerIdle ==
    /\ http = NoRequest
    /\ monitoring_active = FALSE
    /\ monitoring_thread = None
    /\ loops = <<>>
    /\ threads = <<>>
    /\ lock = None
    /\ db = NoDb
    /\ btc_fetcher = BitcoinDataFetcher

(***************************************************************************)
(* app.py: one poll of one miner (update_miner in update_all_miners)       *)
(***************************************************************************)
\* f with key k set to v, k added when it is missing
Put(f, k, v) == [x \in DOMAIN f \cup {k} |-> IF x = k THEN v ELSE f[x]]

\* Lines 401-409 of update_miner: the frequency adjustment and its alert
frequency_step(ip, miner_type, status, r, am, t, origin) ==
    IF r.freq # 0 /\ r.freq # StatusFreq(status)
    THEN [calls |-> apply_frequency(ip, miner_type, r.freq),
          am |-> IF MentionsEmergency(r.reason)
                 THEN alert_frequency_adjusted_am(am, ip, t, origin) ELSE am]
    ELSE [calls |-> <<>>, am |-> am]

\* Lines 368-409 of update_miner: alerts and auto-tuning of a miner that
\* reported a temperature and is not overheated.  st carries the thermal
\* states, the alert manager and the alert states the earlier lines left.
tune_miner(ip, miner_type, status, st, g, t, origin) ==
    LET temp == Val(status.temperature)
        registered == ip \in DOMAIN st.ts
        profile == get_profile(miner_type)
        emergency == registered
                     /\ GetFlag(get_thermal_status(ip, st.ts[ip]), "in_emergency_cooldown")
        last_alert == st.mas[ip].last_temp_alert
        high_temp == registered /\ ~emergency /\ temp >= profile.warning_temp
                     /\ (last_alert = None \/ t - Val(last_alert) > ALERT_COOLDOWN)
        am1 == IF emergency THEN alert_emergency_shutdown_am(st.am, ip, t, origin)
               ELSE IF high_temp THEN alert_high_temperature_am(st.am, ip, t, origin)
               ELSE st.am
        mas1 == IF high_temp
                THEN [st.mas EXCEPT ![ip].last_temp_alert = Some(t)]
                ELSE st.mas
        c == IF registered
             THEN calculate_optimal_frequency_state(st.ts[ip], g, t)
             ELSE [state |-> None,
                   ret |-> [freq |-> 0, fan |-> None, reason |-> "Miner not registered"]]
        ts1 == IF registered THEN [st.ts EXCEPT ![ip] = c.state] ELSE st.ts
        r == c.ret
        current_fan == IF StatusFan(status) # None THEN Val(StatusFan(status)) ELSE 50
        fan_applied == r.fan # None /\ Val(r.fan) # current_fan
        fan_calls == IF fan_applied
                     THEN apply_fan_speed(ip, miner_type, Val(r.fan)) ELSE <<>>
        fs == frequency_step(ip, miner_type, status, r, am1, t, origin)
    IN [ts |-> ts1, am |-> fs.am, mas |-> mas1, ors |-> st.ors,
        calls |-> st.calls \o fan_calls \o fs.calls,
        ret |-> r,
        fan_set |-> IF fan_applied /\ is_esp_miner(miner_type) THEN r.fan ELSE None]

\* The offline branch of update_miner with was_online left as it is
miner_not_responding_keep(ip, st, mas0, t, origin) ==
    [ts |-> st.ts,
     am |-> IF mas0[ip].was_online
            THEN alert_miner_offline_am(st.am, ip, t, origin) ELSE st.am,
     mas |-> mas0,
     ors |-> st.ors, calls |-> st.calls, ret |-> NoRet, fan_set |-> None]

\* Lines 410-414 of update_miner: the miner did not respond
miner_not_responding(ip, st, mas0, t, origin) ==
    [ts |-> st.ts,
     am |-> IF mas0[ip].was_online
            THEN alert_miner_offline_am(st.am, ip, t, origin) ELSE st.am,
     mas |-> [mas0 EXCEPT ![ip].was_online = FALSE],
     ors |-> st.ors, calls |-> st.calls, ret |-> NoRet, fan_set |-> None]

\* update_miner on the status the poll obtained: what it leaves in the
\* thermal states (ts), the alert manager (am), miner_alert_states (mas),
\* overheat_recovery_states (ors), the device calls it issues, the tuple
\* calculate_optimal_frequency returned to it and the fan speed it wrote
\* into the cached status.
poll_miner(ip, miner_type, status, restart_ok, st, g, t, origin) ==
    LET mas0 == IF ip \in DOMAIN st.mas THEN st.mas
                ELSE Put(st.mas, ip, [was_online |-> FALSE, last_temp_alert |-> None])
        miner_status == status.status
        is_responding == miner_status \in {"online", "overheating", "overheated"}
    IN
    IF ~is_responding
    THEN miner_not_responding(ip, st, mas0, t, origin)
    ELSE
      LET am1 == IF miner_status = "online" /\ ~mas0[ip].was_online
                 THEN alert_miner_online_am(st.am, ip, t, origin) ELSE st.am
          mas1 == [mas0 EXCEPT ![ip].was_online =
                                   miner_status \in {"online", "overheating"}]
      IN
      IF status.temperature = None
      THEN [ts |-> st.ts, am |-> am1, mas |-> mas1, ors |-> st.ors,
            calls |-> st.calls, ret |-> NoRet, fan_set |-> None]
      ELSE
        LET temp == Val(status.temperature)
            ts1 == IF ip \in DOMAIN st.ts
                   THEN [st.ts EXCEPT ![ip] =
                            update_miner_stats_state(@, temp, StatusFan(status),
                                                     status.frequency)]
                   ELSE st.ts
        IN
        IF miner_status = "overheated"
        THEN LET reboot == OVERHEAT_AUTO_REBOOT /\ temp > 0
                           /\ temp <= OVERHEAT_RECOVERY_TEMP
             IN [ts |-> ts1,
                 am |-> IF reboot /\ restart_ok
                        THEN alert_overheat_recovery_am(am1, ip, t, origin) ELSE am1,
                 mas |-> mas1,
                 ors |-> IF reboot /\ restart_ok THEN st.ors \ {ip}
                         ELSE st.ors \cup {ip},
                 calls |-> IF reboot
                           THEN st.calls \o <<NetCall(ip, "restart", None)>>
                           ELSE st.calls,
                 ret |-> NoRet, fan_set |-> None]
        ELSE tune_miner(ip, miner_type, status,
                        [ts |-> ts1, am |-> am1, mas |-> mas1,
                         ors |-> st.ors \ {ip},
                         calls |-> IF ip \in st.ors
                                   THEN st.calls \o apply_stock_settings(ip, miner_type)
                                   ELSE st.calls],
                        g, t, origin)


(***************************************************************************)
(* Specification SpecThermal: one registered miner driven through the      *)
(* ThermalManager interface (telemetry feeds, evaluations, operator        *)
(* requests) while time passes.                                            *)
(***************************************************************************)
ThermalIP == "10.0.0.1"
ThermalTypes == {"Antminer S19", "Unknown"}
TickSteps == {cooldown_duration \div 2}
FanInputs == {None, Some(100)}
FreqInputs == {None, Some(500)}
ForceInputs == {1000}

\* Temperatures around every threshold of a profile
TempInputs(p) ==
    {p.optimal_temp - p.temp_hysteresis - 1, p.optimal_temp,
     p.optimal_temp + p.temp_hysteresis + 1, p.warning_temp, p.critical_temp}

ThermalInit ==
    /\ now = 0
    /\ \E ty \in ThermalTypes :
           thermal_states = (ThermalIP :> ThermalState(ty))
    /\ global_auto_tune_enabled = TRUE
    /\ ret = NoRet
    /\ emergency_at = (ThermalIP :> None)
    /\ AlertsIdle
    /\ FleetIdle
    /\ ServerIdle

\* Time passes
Tick(d) ==
    /\ now + d <= MaxTime
    /\ now' = now + d
    /\ ret' = NoRet
    /\ UNCHANGED <<thermal_states, global_auto_tune_enabled, emergency_at, nonThermalVars>>

\* ThermalManager.update_miner_stats
update_miner_stats(ip, temperature, fan_speed, frequency) ==
    /\ thermal_states' =
           IF ip \in DOMAIN thermal_states
           THEN [thermal_states EXCEPT ![ip] =
                    update_miner_stats_state(@, temperature, fan_speed, frequency)]
           ELSE thermal_states
    /\ ret' = NoRet
    /\ UNCHANGED <<now, global_auto_tune_enabled, emergency_at, nonThermalVars>>

\* The time of the emergency shutdown an evaluation reports, if it reports one
EmergencyReported(r, old, t) ==
    IF r.reason = "EMERGENCY: Critical temp" THEN Some(t) ELSE old

\* ThermalManager.calculate_optimal_frequency
calculate_optimal_frequency(ip) ==
    /\ IF ip \in DOMAIN thermal_states
       THEN LET r == calculate_optimal_frequency_state(
                         thermal_states[ip], global_auto_tune_enabled, now)
            IN /\ thermal_states' = [thermal_states EXCEPT ![ip] = r.state]
               /\ ret' = r.ret
               /\ emergency_at' = [emergency_at EXCEPT ![ip] =
                                      EmergencyReported(r.ret, @, now)]
       ELSE /\ ret' = [freq |-> 0, fan |-> None, reason |-> "Miner not registered"]
            /\ UNCHANGED <<thermal_states, emergency_at>>
    /\ UNCHANGED <<now, global_auto_tune_enabled, nonThermalVars>>

\* ThermalManager.set_auto_tune
set_auto_tune(ip, enabled) ==
    /\ thermal_states' =
           IF ip \in DOMAIN thermal_states
           THEN [thermal_states EXCEPT ![ip].auto_tune_enabled = enabled]
           ELSE thermal_states
    /\ ret' = NoRet
    /\ UNCHANGED <<now, global_auto_tune_enabled, emergency_at, nonThermalVars>>

\* ThermalManager.set_global_auto_tune
set_global_auto_tune(enabled) ==
    /\ global_auto_tune_enabled' = enabled
    /\ ret' = NoRet
    /\ UNCHANGED <<now, thermal_states, emergency_at, nonThermalVars>>

\* ThermalManager.force_frequency
force_frequency(ip, frequency) ==
    /\ thermal_states' =
           IF ip \in DOMAIN thermal_states
           THEN [thermal_states EXCEPT ![ip] = force_frequency_state(@, frequency)]
           ELSE thermal_states
    /\ ret' = NoRet
    /\ UNCHANGED <<now, global_auto_tune_enabled, emergency_at, nonThermalVars>>

\* ThermalManager.reset_miner; the operator's reset ends the cooldown, so
\* the shutdown it belonged to is no longer tracked.
reset_miner(ip) ==
    /\ thermal_states' =
           IF ip \in DOMAIN thermal_states
           THEN [thermal_states EXCEPT ![ip] = reset_miner_state(@)]
           ELSE thermal_states
    /\ emergency_at' = [emergency_at EXCEPT ![ip] = None]
    /\ ret' = NoRet
    /\ UNCHANGED <<now, global_auto_tune_enabled, nonThermalVars>>

ThermalNext ==
    \/ \E d \in TickSteps : Tick(d)
    \/ \E t \in TempInputs(thermal_states[ThermalIP].profile),
          f \in FanInputs, q \in FreqInputs :
          update_miner_stats(ThermalIP, t, f, q)
    \/ calculate_optimal_frequency(ThermalIP)
    \/ \E e \in BOOLEAN : set_auto_tune(ThermalIP, e)
    \/ \E e \in BOOLEAN : set_global_auto_tune(e)
    \/ \E q \in ForceInputs : force_frequency(ThermalIP, q)
    \/ reset_miner(ThermalIP)

SpecThermal == ThermalInit /\ [][ThermalNext]_vars

(***************************************************************************)
(* C1. Emergency shutdown and cooldown.  In the state an evaluation        *)
(* leaves: a current temperature at or above the profile's critical        *)
(* threshold means a cooldown is running (the evaluation started it, or    *)
(* it was started less than 10 minutes ago); a shutdown that the           *)
(* evaluation itself reports leaves the state's frequency at 0 and the     *)
(* cooldown stamped with the current time; while less than 10 minutes      *)
(* have passed since the reported shutdown the evaluation returns          *)
(* frequency 0 and fan 100 whatever temperature was fed; from the          *)
(* 10-minute mark on the cooldown flag is cleared and the evaluation       *)
(* returns one of the normal (non-emergency) outcomes.                     *)
(***************************************************************************)
InCooldownWindow(ip) ==
    /\ emergency_at[ip] # None
    /\ now - Val(emergency_at[ip]) < cooldown_duration

C1_EmergencyCooldown ==
    \A ip \in DOMAIN thermal_states :
        ret # NoRet =>
            LET s == thermal_states[ip] IN
            /\ s.current_temp >= s.profile.critical_temp => InCooldownWindow(ip)
            /\ ret.reason = "EMERGENCY: Critical temp" =>
                   /\ emergency_at[ip] = Some(now)
                   /\ s.current_freq = 0
                   /\ s.cooldown_started = Some(now)
            /\ InCooldownWindow(ip) =>
                   /\ ret.freq = 0
                   /\ ret.fan = Some(100)
                   /\ ret.reason \in EmergencyReasons
                   /\ s.in_emergency_cooldown
            /\ ~InCooldownWindow(ip) =>
                   /\ ~s.in_emergency_cooldown
                   /\ ret.reason \notin EmergencyReasons

\* An evaluation made 5 minutes into a cooldown, after a temperature
\* below the warning threshold was fed, still returns frequency 0.
C1_Witness ==
    /\ ret # NoRet
    /\ ret.freq = 0
    /\ emergency_at[ThermalIP] # None
    /\ now - Val(emergency_at[ThermalIP]) = cooldown_duration \div 2
    /\ thermal_states[ThermalIP].current_temp
           < thermal_states[ThermalIP].profile.warning_temp

\* An evaluation made at the 10-minute mark resumed normal evaluation.
C1_WitnessResumed ==
    /\ ret # NoRet
    /\ emergency_at[ThermalIP] # None
    /\ now - Val(emergency_at[ThermalIP]) = cooldown_duration
    /\ ret.reason = "In optimal range"

(***************************************************************************)
(* Specification SpecAlerts: the AlertManager driven through its           *)
(* interface (configuration requests and alerts of a warning-level and of  *)
(* an emergency-level type) while the wall clock advances across the       *)
(* borders of the quiet-hours window.                                      *)
(***************************************************************************)
AlertIPs == {"10.0.0.1", "10.0.0.2"}

\* 21:50 and 06:50
ClockOrigins == {2620, 820}

ConfigureInputs ==
    {("telegram_enabled" :> TRUE),
     ("quiet_hours_enabled" :> TRUE),
     ("quiet_hours_enabled" :> FALSE),
     ("quiet_hours_start" :> <<7, 0>>) @@ ("quiet_hours_end" :> <<22, 0>>),
     ("quiet_hours_start" :> <<22, 0>>) @@ ("quiet_hours_end" :> <<7, 0>>),
     ("enabled_alert_types" :> ("miner_offline" :> FALSE))}

AlertsInit ==
    /\ now = 0
    /\ thermal_states = <<>>
    /\ global_auto_tune_enabled = TRUE
    /\ ret = NoRet
    /\ emergency_at = <<>>
    /\ alert_mgr = AlertManager
    /\ clock_origin \in ClockOrigins
    /\ FleetIdle
    /\ ServerIdle

\* AlertManager.configure
configure(kwargs) ==
    /\ alert_mgr' = configure_am(alert_mgr, kwargs)
    /\ UNCHANGED <<now, clock_origin, nonAlertVars>>

\* AlertManager.alert_miner_offline
alert_miner_offline(miner_ip) ==
    /\ Len(alert_mgr.fired) < MaxAlerts
    /\ alert_mgr' = alert_miner_offline_am(alert_mgr, miner_ip, now, clock_origin)
    /\ UNCHANGED <<now, clock_origin, nonAlertVars>>

\* AlertManager.alert_emergency_shutdown
alert_emergency_shutdown(miner_ip) ==
    /\ Len(alert_mgr.fired) < MaxAlerts
    /\ alert_mgr' = alert_emergency_shutdown_am(alert_mgr, miner_ip, now, clock_origin)
    /\ UNCHANGED <<now, clock_origin, nonAlertVars>>

AlertsNext ==
    \/ \E d \in TickSteps : Tick(d)
    \/ \E kw \in ConfigureInputs : configure(kw)
    \/ \E ip \in AlertIPs : alert_miner_offline(ip)
    \/ \E ip \in AlertIPs : alert_emergency_shutdown(ip)

SpecAlerts == AlertsInit /\ [][AlertsNext]_vars

SeqRange(q) == {q[i] : i \in 1..Len(q)}

(***************************************************************************)
(* C7. Alert cooldown.  When an alert was delivered, an alert of the same  *)
(* type for the same miner that is fired later and less than the cooldown  *)
(* (15 minutes) after it is never dispatched: it is not among the          *)
(* messages handed to Telegram.                                            *)
(***************************************************************************)
C7_CooldownSuppressesSecond ==
    \A a \in SeqRange(alert_mgr.telegram) :
        \A b \in SeqRange(alert_mgr.fired) :
            (/\ b.id > a.id
             /\ AlertKey(b) = AlertKey(a)
             /\ b.timestamp - a.timestamp < alert_cooldown)
            => b \notin SeqRange(alert_mgr.telegram)

\* A delivered alert was followed, 5 minutes later and outside the quiet
\* hours, by an alert of the same type for the same miner, which was dropped.
C7_Witness ==
    \E a \in SeqRange(alert_mgr.telegram) :
        \E b \in SeqRange(alert_mgr.fired) :
            /\ b.id > a.id
            /\ AlertKey(b) = AlertKey(a)
            /\ b.timestamp - a.timestamp = cooldown_duration \div 2
            /\ b.level = "emergency"
            /\ b \notin SeqRange(alert_mgr.telegram)

(***************************************************************************)
(* C8. Quiet hours.  The quiet window is the stretch of the day that       *)
(* begins at the start time (inclusive) and ends at the end time           *)
(* (exclusive), running past midnight when the start is later than the     *)
(* end.  An alert of an enabled type handed to send_alert while the        *)
(* current time is inside the window: if it is not of emergency level it   *)
(* is added to the alert history of the database and is not delivered; if  *)
(* it is of emergency level it is treated as outside quiet hours, so with  *)
(* the Telegram channel enabled and no alert of its type and miner sent    *)
(* within the cooldown it is delivered.                                    *)
(***************************************************************************)
MinuteOfDay(hm) == hm[1] * 60 + hm[2]

\* The minutes of the day from start up to, not including, end
QuietWindow(start, end) ==
    {(MinuteOfDay(start) + k) % 1440 :
        k \in 0..(((MinuteOfDay(end) - MinuteOfDay(start)) % 1440) - 1)}

InQuietWindow(cfg, t, origin) ==
    /\ cfg.quiet_hours_enabled
    /\ ValidHM(cfg.quiet_hours_start)
    /\ ValidHM(cfg.quiet_hours_end)
    /\ MinuteOfDay(TimeOfDay(t, origin))
           \in QuietWindow(cfg.quiet_hours_start, cfg.quiet_hours_end)

\* An alert with the key of a was sent less than the cooldown ago
KeyCooling(am, a, t) ==
    \E b \in SeqRange(am.alert_history) :
        AlertKey(b) = AlertKey(a) /\ t - b.timestamp < alert_cooldown

C8_QuietHours ==
    [][ Len(alert_mgr'.fired) = Len(alert_mgr.fired) + 1 =>
          LET a == alert_mgr'.fired[Len(alert_mgr'.fired)]
              cfg == alert_mgr.config
          IN (InQuietWindow(cfg, now, clock_origin)
              /\ cfg.enabled_alert_types[a.alert_type]) =>
                 IF a.level # "emergency"
                 THEN /\ alert_mgr'.db_alert_history
                             = Append(alert_mgr.db_alert_history, a)
                      /\ alert_mgr'.telegram = alert_mgr.telegram
                 ELSE (cfg.telegram_enabled /\ ~KeyCooling(alert_mgr, a, now)) =>
                          /\ alert_mgr'.telegram = Append(alert_mgr.telegram, a)
                          /\ alert_mgr'.db_alert_history
                                 = Append(alert_mgr.db_alert_history, a)
      ]_vars

\* During an overnight quiet window (22:00-07:00) a warning-level alert was
\* recorded in the database but not delivered, and an emergency-level alert
\* raised at the same time was delivered.
C8_Witness ==
    /\ alert_mgr.config.quiet_hours_start = <<22, 0>>
    /\ alert_mgr.config.quiet_hours_end = <<7, 0>>
    /\ \E a \in SeqRange(alert_mgr.db_alert_history) :
          /\ a.level = "warning"
          /\ a \notin SeqRange(alert_mgr.telegram)
          /\ a \notin SeqRange(alert_mgr.alert_history)
          /\ TimeOfDay(a.timestamp, clock_origin) \in {<<22, 0>>, <<22, 5>>, <<6, 55>>}
          /\ \E b \in SeqRange(alert_mgr.telegram) :
                b.level = "emergency" /\ b.timestamp = a.timestamp

(***************************************************************************)
(* Specification SpecPoll: the monitoring loop over a fleet of one real    *)
(* ESP miner and one simulated miner.  A cycle applies the mining          *)
(* schedule, snapshots the registry, polls every miner of the snapshot     *)
(* and sleeps for the update interval (one unit of time).                  *)
(***************************************************************************)
MaxPollTime == 2

UPDATE_INTERVAL == 1
PollSleeps == {UPDATE_INTERVAL}

RealIP == "10.0.0.1"
MockIP == "10.0.0.107"
ENABLE_TEST_ENDPOINTS == TRUE

\* The entry of mock_miners_data for 10.0.0.107 (49.8 degrees as 50)
MockStatus == Status("online", Some(50), Some(450), Some(35))

\* What the device of the real miner may answer to a poll
PollStatuses ==
    {Status("online", Some(55), Some(485), Some(50)),
     Status("online", Some(64), Some(485), Some(100)),
     Status("online", Some(68), Some(485), Some(50)),
     Status("overheated", Some(38), Some(485), Some(100)),
     Status("offline", None, None, None)}

\* MiningScheduler.should_mine_now: (should_mine, target_frequency)
ScheduleDecisions ==
    {[should_mine |-> TRUE, target_frequency |-> 0],
     [should_mine |-> TRUE, target_frequency |-> 500],
     [should_mine |-> FALSE, target_frequency |-> 0]}

\* The members of a set of miner addresses, in the order of the registry
RECURSIVE InOrder(_)
InOrder(S) ==
    IF S = {} THEN <<>>
    ELSE LET ip == CHOOSE x \in S : TRUE
         IN <<ip>> \o InOrder(S \ {ip})

RECURSIVE Concat(_)
Concat(q) == IF q = <<>> THEN <<>> ELSE Head(q) \o Concat(Tail(q))

PollInit ==
    /\ now = 0
    /\ thermal_states = <<>>
    /\ global_auto_tune_enabled = TRUE
    /\ ret = NoRet
    /\ emergency_at = <<>>
    /\ alert_mgr = AlertManager
    /\ clock_origin = 0
    /\ miners = <<>>
    /\ miner_alert_states = <<>>
    /\ overheat_recovery_states = {}
    /\ monitor = [phase |-> "schedule", pending |-> {}]
    /\ net_calls = <<>>
    /\ last_poll = NoPoll
    /\ streak = <<>>
    /\ ServerIdle

\* FleetManager.discover_miners finding one miner on the network
discover_miners(ip, miner_type) ==
    /\ miners' = Put(miners, ip, Miner(miner_type, FALSE, None))
    /\ thermal_states' = register_miner(thermal_states, ip, miner_type)
    /\ emergency_at' = IF ip \in DOMAIN emergency_at THEN emergency_at
                       ELSE Put(emergency_at, ip, None)
    /\ streak' = IF ip \in DOMAIN streak THEN streak ELSE Put(streak, ip, NoStreak)
    /\ net_calls' = <<NetCall(ip, "detect", None)>>
                    \o apply_stock_settings(ip, miner_type)
    /\ ret' = NoRet
    /\ last_poll' = NoPoll
    /\ http' = [handler |-> "discover_miners", ips |-> <<>>, data |-> <<>>, code |-> 200]
    /\ UNCHANGED <<db, btc_fetcher, monitoring_active, monitoring_thread, loops, threads, lock,
                   now, global_auto_tune_enabled, alertVars, miner_alert_states,
                   overheat_recovery_states, monitor>>

\* add_mock_miners (POST /api/test/mock-miners), for one entry of its list
add_mock_miners(ip, miner_type, status) ==
    /\ ENABLE_TEST_ENDPOINTS
    /\ miners' = Put(miners, ip, Miner(miner_type, TRUE, Some(status)))
    /\ thermal_states' =
           LET ts == register_miner(thermal_states, ip, miner_type)
           IN [ts EXCEPT ![ip] = update_miner_stats_state(
                                     @, Val(status.temperature), status.fan_speed, None)]
    /\ emergency_at' = IF ip \in DOMAIN emergency_at THEN emergency_at
                       ELSE Put(emergency_at, ip, None)
    /\ streak' = IF ip \in DOMAIN streak THEN streak ELSE Put(streak, ip, NoStreak)
    /\ net_calls' = <<>>
    /\ ret' = NoRet
    /\ last_poll' = NoPoll
    /\ http' = [handler |-> "add_mock_miners", ips |-> <<>>, data |-> <<>>, code |-> 200]
    /\ UNCHANGED <<db, btc_fetcher, monitoring_active, monitoring_thread, loops, threads, lock,
                   now, global_auto_tune_enabled, alertVars, miner_alert_states,
                   overheat_recovery_states, monitor>>

\* FleetManager._apply_mining_schedule on the scheduler's decision
apply_mining_schedule(decision) ==
    /\ monitor.phase = "schedule"
    /\ LET to_adjust == {ip \in DOMAIN miners :
                            is_esp_miner(miners[ip].type)
                            /\ miners[ip].last_status # None}
           target == IF ~decision.should_mine THEN 100 ELSE decision.target_frequency
           call(ip) == <<NetCall(ip, "apply_settings",
                           [frequency |-> validate_frequency(miners[ip].type, target)])>>
       IN net_calls' =
              IF ~decision.should_mine \/ decision.target_frequency > 0
              THEN Concat([i \in 1..Len(InOrder(to_adjust)) |->
                              call(InOrder(to_adjust)[i])])
              ELSE <<>>
    /\ monitor' = [phase |-> "update", pending |-> {}]
    /\ ret' = NoRet
    /\ last_poll' = NoPoll
    /\ UNCHANGED <<serverVars, now, thermal_states, global_auto_tune_enabled, emergency_at,
                   alertVars, miners, miner_alert_states,
                   overheat_recovery_states, streak>>

\* FleetManager.update_all_miners up to the snapshot of the registry
update_all_miners ==
    /\ monitor.phase = "update"
    /\ monitor' = IF DOMAIN miners = {}
                  THEN [phase |-> "sleep", pending |-> {}]
                  ELSE [phase |-> "polling", pending |-> DOMAIN miners]
    /\ net_calls' = <<>>
    /\ ret' = NoRet
    /\ last_poll' = NoPoll
    /\ UNCHANGED <<serverVars, now, thermal_states, global_auto_tune_enabled, emergency_at,
                   alertVars, miners, miner_alert_states,
                   overheat_recovery_states, streak>>

\* The run of failed polls a miner is in after a poll that saw miner_status
NextStreak(sk, miner_status, t) ==
    IF miner_status \in {"online", "overheating", "overheated"}
    THEN [start |-> None, before |-> miner_status, len |-> 0]
    ELSE IF sk.start = None
    THEN [start |-> Some(t), before |-> sk.before, len |-> 1]
    ELSE [sk EXCEPT !.len = @ + 1]

\* update_miner (the worker of update_all_miners) for one miner of the
\* snapshot: device is what the device would answer, restart_ok whether
\* it would accept a restart.
update_miner(ip, device, restart_ok, max_alerts) ==
    /\ monitor.phase = "polling"
    /\ ip \in monitor.pending
    /\ LET miner == miners[ip]
           status == IF miner.is_mock
                     THEN IF miner.last_status # None THEN Val(miner.last_status)
                          ELSE Status("online", None, None, None)
                     ELSE device
           p == poll_miner(ip, miner.type, status, restart_ok,
                           [ts |-> thermal_states, am |-> alert_mgr,
                            mas |-> miner_alert_states,
                            ors |-> overheat_recovery_states,
                            calls |-> IF miner.is_mock THEN <<>>
                                      ELSE <<NetCall(ip, "get_status", None)>>],
                           global_auto_tune_enabled, now, clock_origin)
           cached == IF miner.is_mock THEN miner.last_status ELSE Some(status)
       IN /\ Len(p.am.fired) <= max_alerts
          /\ thermal_states' = p.ts
          /\ alert_mgr' = p.am
          /\ miner_alert_states' = p.mas
          /\ overheat_recovery_states' = p.ors
          /\ net_calls' = p.calls
          /\ ret' = p.ret
          /\ emergency_at' = [emergency_at EXCEPT ![ip] =
                                 EmergencyReported(p.ret, @, now)]
          /\ miners' = [miners EXCEPT ![ip].last_status =
                           IF p.fan_set # None /\ cached # None
                           THEN Some([Val(cached) EXCEPT !.fan_speed = p.fan_set])
                           ELSE cached]
          /\ last_poll' = [ip |-> ip, status |-> status.status,
                           restart |-> IF \E i \in 1..Len(p.calls) :
                                              p.calls[i].op = "restart"
                                       THEN Some(restart_ok) ELSE None]
          /\ streak' = [streak EXCEPT ![ip] = NextStreak(@, status.status, now)]
    /\ monitor' = IF monitor.pending = {ip}
                  THEN [phase |-> "sleep", pending |-> {}]
                  ELSE [monitor EXCEPT !.pending = @ \ {ip}]
    /\ UNCHANGED <<serverVars, now, global_auto_tune_enabled, clock_origin>>

\* The sleep of monitor_loop between two cycles; d is the time from one
\* cycle to the next, UPDATE_INTERVAL and what the cycle itself took
monitor_sleep(d, max_time) ==
    /\ monitor.phase = "sleep"
    /\ now + d <= max_time
    /\ now' = now + d
    /\ monitor' = [phase |-> "schedule", pending |-> {}]
    /\ net_calls' = <<>>
    /\ ret' = NoRet
    /\ last_poll' = NoPoll
    /\ UNCHANGED <<serverVars, thermal_states, global_auto_tune_enabled, emergency_at,
                   alertVars, miners, miner_alert_states,
                   overheat_recovery_states, streak>>

PollNext ==
    \/ discover_miners(RealIP, "BitAxe")
    \/ add_mock_miners(MockIP, "BitAxe Max", MockStatus)
    \/ \E d \in ScheduleDecisions : apply_mining_schedule(d)
    \/ update_all_miners
    \/ \E ip \in {RealIP, MockIP}, device \in PollStatuses, ok \in BOOLEAN :
          update_miner(ip, device, ok, MaxPollAlerts)
    \/ \E d \in PollSleeps : monitor_sleep(d, MaxPollTime)

SpecPoll == PollInit /\ [][PollNext]_vars

(***************************************************************************)
(* C2. Whenever a poll of an ESP miner ends with a thermal target          *)
(* frequency of 0, the same poll sends the miner the settings command      *)
(* that programs 400 MHz.                                                  *)
(***************************************************************************)
EmergencyTargetPolled ==
    /\ last_poll # NoPoll
    /\ is_esp_miner(miners[last_poll.ip].type)
    /\ ret.reason \in EmergencyReasons
    /\ ret.freq = 0

C2_EmergencyFrequencyApplied ==
    EmergencyTargetPolled =>
        \E i \in 1..Len(net_calls) :
            /\ net_calls[i].ip = last_poll.ip
            /\ net_calls[i].op = "apply_settings"
            /\ "frequency" \in DOMAIN net_calls[i].settings
            /\ net_calls[i].settings.frequency = 400

(***************************************************************************)
(* C4. No step issues a device network call to a simulated miner, and a    *)
(* simulated miner keeps the status it was last assigned.                  *)
(***************************************************************************)
C4_NoCallToMockMiner ==
    /\ \A i \in 1..Len(net_calls) :
           net_calls[i].ip \in DOMAIN miners => ~miners[net_calls[i].ip].is_mock
    /\ \A ip \in DOMAIN miners :
           miners[ip].is_mock => miners[ip].last_status = Some(MockStatus)

(***************************************************************************)
(* C13. A poll that processes a responding, non-overheated miner whose     *)
(* thermal state has the emergency-cooldown flag set hands an              *)
(* emergency_shutdown alert for that miner to the alert manager.           *)
(***************************************************************************)
C13_EmergencyAlertRaised ==
    [][(/\ last_poll' # NoPoll
        /\ last_poll'.status \in {"online", "overheating"}
        /\ last_poll'.ip \in DOMAIN thermal_states
        /\ thermal_states[last_poll'.ip].in_emergency_cooldown)
       => \E i \in (Len(alert_mgr.fired) + 1)..Len(alert_mgr'.fired) :
             /\ alert_mgr'.fired[i].alert_type = "emergency_shutdown"
             /\ alert_mgr'.fired[i].miner_ip = last_poll'.ip]_vars

(***************************************************************************)
(* Specification SpecRecovery: the monitoring loop over one registered     *)
(* miner that overheats, cools down and is restarted.                      *)
(***************************************************************************)
MaxRecoveryTime == 3
MaxRecoveryAlerts == 3

\* What the device may answer: running, and shut down by its own overheat
\* protection at the recovery threshold, above it, and with a failed sensor
RecoveryStatuses ==
    {Status("online", Some(55), Some(485), Some(50)),
     Status("overheated", Some(38), Some(485), Some(100)),
     Status("overheated", Some(39), Some(485), Some(100)),
     Status("overheated", Some(0), Some(485), Some(100)),
     Status("overheated", Some(-1), Some(485), Some(100))}

RecoveryInit ==
    /\ now = 0
    /\ thermal_states = (RealIP :> ThermalState("BitAxe"))
    /\ global_auto_tune_enabled = TRUE
    /\ ret = NoRet
    /\ emergency_at = (RealIP :> None)
    /\ alert_mgr = AlertManager
    /\ clock_origin = 0
    /\ miners = (RealIP :> Miner("BitAxe", FALSE, None))
    /\ miner_alert_states = <<>>
    /\ overheat_recovery_states = {}
    /\ monitor = [phase |-> "schedule", pending |-> {}]
    /\ net_calls = <<>>
    /\ last_poll = NoPoll
    /\ streak = (RealIP :> NoStreak)
    /\ ServerIdle

RecoveryNext ==
    \/ apply_mining_schedule([should_mine |-> TRUE, target_frequency |-> 0])
    \/ update_all_miners
    \/ \E device \in RecoveryStatuses, ok \in BOOLEAN :
          update_miner(RealIP, device, ok, MaxRecoveryAlerts)
    \/ \E d \in PollSleeps : monitor_sleep(d, MaxRecoveryTime)

SpecRecovery == RecoveryInit /\ [][RecoveryNext]_vars

\* The temperature the last poll read
PolledTemp == Val(Val(miners[last_poll.ip].last_status).temperature)

\* The last step called miner.restart() on the polled miner
RestartIssued ==
    \E i \in 1..Len(net_calls) :
        net_calls[i].op = "restart" /\ net_calls[i].ip = last_poll.ip

\* The step hands an overheat_recovery alert for the polled miner to the
\* alert manager
RecoveryAlertRaised ==
    \E i \in (Len(alert_mgr.fired) + 1)..Len(alert_mgr'.fired) :
        /\ alert_mgr'.fired[i].alert_type = "overheat_recovery"
        /\ alert_mgr'.fired[i].miner_ip = last_poll'.ip

\* The step is a poll that found the miner overheated
OverheatedPoll == last_poll' # NoPoll /\ last_poll'.status = "overheated"

(***************************************************************************)
(* C14 as stated. A poll of an overheated miner that reads a positive      *)
(* temperature of at most 38 issues a restart, raises the overheat         *)
(* recovery alert and clears the recovery tracking; with any other         *)
(* reading it issues no restart.                                           *)
(***************************************************************************)
C14_RecoveryRestartAlertClear ==
    [][OverheatedPoll =>
          IF PolledTemp' > 0 /\ PolledTemp' <= 38
          THEN /\ RestartIssued'
               /\ RecoveryAlertRaised
               /\ last_poll'.ip \notin overheat_recovery_states'
          ELSE ~RestartIssued']_vars

(***************************************************************************)
(* C14 amended. Such a poll issues the restart; the alert is raised and    *)
(* the tracking cleared when the restart command succeeds, and when it     *)
(* fails no alert is raised and the miner stays tracked.  With a           *)
(* non-positive reading or one above 38 no restart is issued, no alert     *)
(* raised and the miner stays tracked.                                     *)
(***************************************************************************)
C14_RecoveryWhenRestartSucceeds ==
    [][OverheatedPoll =>
          IF PolledTemp' > 0 /\ PolledTemp' <= 38
          THEN /\ RestartIssued'
               /\ last_poll'.restart # None
               /\ IF Val(last_poll'.restart)
                  THEN /\ RecoveryAlertRaised
                       /\ last_poll'.ip \notin overheat_recovery_states'
                  ELSE /\ ~RecoveryAlertRaised
                       /\ last_poll'.ip \in overheat_recovery_states'
          ELSE /\ ~RestartIssued'
               /\ ~RecoveryAlertRaised
               /\ last_poll'.ip \in overheat_recovery_states']_vars

\* a miner read at 39 and then at 38 degrees while overheated was
\* restarted, the alert raised and the tracking cleared
C14_Witness ==
    /\ last_poll.status = "overheated"
    /\ last_poll.restart = Some(TRUE)
    /\ RestartIssued
    /\ PolledTemp = 38
    /\ thermal_states[last_poll.ip].last_temp = 39
    /\ last_poll.ip \notin overheat_recovery_states
    /\ \E i \in 1..Len(alert_mgr.fired) :
           alert_mgr.fired[i].alert_type = "overheat_recovery"

\* an overheated miner read at 39 degrees was left alone and stays tracked
C14_WitnessTooWarm ==
    /\ last_poll.status = "overheated"
    /\ PolledTemp = 39
    /\ ~RestartIssued
    /\ last_poll.ip \in overheat_recovery_states

\* AlertConfig.__init__: the global warning threshold and the per-miner
\* overrides of a fresh configuration
high_temp_threshold == 70
miner_overrides == <<>>

\* The device types whose lower-cased name contains the given words
AvalonTypes == {"Avalon Nano 3S", "Avalon Nano"}
AntminerTypes == {"Antminer S19", "Antminer S21", "Antminer"}
WhatsminerTypes == {"Whatsminer M30S"}

\* AlertManager.get_device_temp_threshold
get_device_temp_threshold(overrides, global_threshold, miner_ip, miner_type) ==
    IF miner_ip \in DOMAIN overrides
    THEN [warning |-> IF "temp_warning" \in DOMAIN overrides[miner_ip]
                      THEN overrides[miner_ip]["temp_warning"]
                      ELSE global_threshold,
          critical |-> IF "temp_critical" \in DOMAIN overrides[miner_ip]
                       THEN overrides[miner_ip]["temp_critical"] ELSE 90]
    ELSE IF miner_type \in AvalonTypes THEN [warning |-> 85, critical |-> 92]
    ELSE IF miner_type \in AntminerTypes THEN [warning |-> 80, critical |-> 95]
    ELSE IF miner_type \in WhatsminerTypes THEN [warning |-> 80, critical |-> 95]
    ELSE [warning |-> global_threshold, critical |-> 90]

\* The step hands a high_temperature alert for the polled miner to the
\* alert manager
HighTempAlertRaised ==
    \E i \in (Len(alert_mgr.fired) + 1)..Len(alert_mgr'.fired) :
        /\ alert_mgr'.fired[i].alert_type = "high_temperature"
        /\ alert_mgr'.fired[i].miner_ip = last_poll'.ip

(***************************************************************************)
(* C20. A poll raises the high temperature alert for a miner only when     *)
(* the temperature it read is at or above the warning threshold of         *)
(* get_device_temp_threshold: the miner's override if one is configured,   *)
(* else the default of its device family, else the global threshold.       *)
(***************************************************************************)
C20_HighTempUsesDeviceThreshold ==
    [][(last_poll' # NoPoll /\ HighTempAlertRaised) =>
          PolledTemp' >= get_device_temp_threshold(
                             miner_overrides, high_temp_threshold, last_poll'.ip,
                             miners'[last_poll'.ip].type).warning]_vars

(***************************************************************************)
(* app.py: the manual settings endpoints                                   *)
(***************************************************************************)
Has(data, key) == key \in DOMAIN data

\* The settings update_miner_settings builds from a request body whose
\* values passed the range checks
single_settings(data) ==
    LET keys == (DOMAIN data \cap {"coreVoltage", "frequency", "autofanspeed",
                                   "targetTemp"})
                \cup (IF Has(data, "fanSpeed") THEN {"fanspeed", "autofanspeed"}
                      ELSE {})
    IN [k \in keys |->
           CASE k = "fanspeed" -> data["fanSpeed"]
             [] k = "autofanspeed" ->
                    IF Has(data, "autofanspeed") THEN data["autofanspeed"] ELSE 0
             [] OTHER -> data[k]]

\* The range checks of update_miner_settings (lines 1114-1166): the
\* status code they answer with, 0 when they let the request through
single_validation(data) ==
    IF Has(data, "coreVoltage")
       /\ (data["coreVoltage"] < 800 \/ data["coreVoltage"] > 1400) THEN 400
    ELSE IF Has(data, "frequency")
            /\ (data["frequency"] < 100 \/ data["frequency"] > 1000) THEN 400
    ELSE IF Has(data, "fanSpeed")
            /\ (data["fanSpeed"] < 0 \/ data["fanSpeed"] > 100) THEN 400
    ELSE IF Has(data, "targetTemp")
            /\ (data["targetTemp"] < 40 \/ data["targetTemp"] > 75) THEN 400
    ELSE IF DOMAIN single_settings(data) = {} THEN 400
    ELSE 0

\* The range checks of batch_settings (lines 1330-1362)
batch_validation(ips, settings) ==
    IF ips = <<>> THEN 400
    ELSE IF DOMAIN settings = {} THEN 400
    ELSE IF Has(settings, "frequency")
            /\ (settings["frequency"] < 100 \/ settings["frequency"] > 1000) THEN 400
    ELSE IF Has(settings, "coreVoltage")
            /\ (settings["coreVoltage"] < 800 \/ settings["coreVoltage"] > 1400) THEN 400
    ELSE IF Has(settings, "fanSpeed") \/ Has(settings, "fanspeed")
    THEN LET fan == IF Has(settings, "fanSpeed") THEN settings["fanSpeed"]
                    ELSE settings["fanspeed"]
         IN IF fan < 0 \/ fan > 100 THEN 400 ELSE 0
    ELSE 0

\* The settings batch_settings sends to one miner
safe_settings(miner_type, settings) ==
    [k \in DOMAIN settings |->
        IF k = "frequency" THEN validate_frequency(miner_type, settings[k])
        ELSE settings[k]]

\* The device calls of the loop of batch_settings over ips[i..]
RECURSIVE batch_calls(_, _, _, _)
batch_calls(reg, ips, settings, i) ==
    IF i > Len(ips) THEN <<>>
    ELSE (IF ips[i] \in DOMAIN reg /\ is_esp_miner(reg[ips[i]].type)
          THEN <<NetCall(ips[i], "apply_settings",
                         safe_settings(reg[ips[i]].type, settings))>>
          ELSE <<>>)
         \o batch_calls(reg, ips, settings, i + 1)

(***************************************************************************)
(* Specification SpecSettings: manual settings requests, to one miner and  *)
(* to a batch, against a registry that discovery and the test seeding fill *)
(***************************************************************************)
UnknownIP == "10.0.0.9"

\* Request bodies: every bounded field at and just beyond both of its
\* bounds, alone and next to a valid field
SettingsInputs ==
    {("coreVoltage" :> v) : v \in {799, 800, 1400, 1401}}
    \cup {("frequency" :> v) : v \in {99, 100, 1000, 1001}}
    \cup {("fanSpeed" :> v) : v \in {-1, 0, 100, 101}}
    \cup {("targetTemp" :> v) : v \in {39, 40, 75, 76}}
    \cup {("frequency" :> 500) @@ ("targetTemp" :> v) : v \in {60, 90}}
    \cup {("fanSpeed" :> 50) @@ ("fanspeed" :> 150),
          ("autofanspeed" :> 1)}

BatchIps == {<<>>, <<RealIP>>, <<MockIP, RealIP>>, <<UnknownIP>>}

SettingsInit ==
    /\ now = 0
    /\ thermal_states = <<>>
    /\ global_auto_tune_enabled = TRUE
    /\ ret = NoRet
    /\ emergency_at = <<>>
    /\ AlertsIdle
    /\ FleetIdle
    /\ ServerIdle

\* update_miner_settings (POST /api/miner/<ip>/settings); apply_ok is
\* whether the device accepts the settings
update_miner_settings(ip, data, apply_ok) ==
    LET known == ip \in DOMAIN miners
        invalid == single_validation(data)
        settings == single_settings(data)
        mock == known /\ miners[ip].is_mock
        contacted == known /\ invalid = 0 /\ ~mock
        code == IF ~known THEN 404
                ELSE IF invalid # 0 THEN invalid
                ELSE IF mock \/ apply_ok THEN 200
                ELSE 500
    IN /\ http' = [handler |-> "update_miner_settings", ips |-> <<ip>>,
                   data |-> data, code |-> code]
       /\ net_calls' = IF contacted
                       THEN <<NetCall(ip, "apply_settings", settings)>> ELSE <<>>
       /\ miners' =
              IF mock /\ invalid = 0 /\ miners[ip].last_status # None
              THEN [miners EXCEPT ![ip].last_status =
                       Some([Val(@) EXCEPT
                           !.frequency = IF Has(settings, "frequency")
                                         THEN Some(settings["frequency"]) ELSE @,
                           !.fan_speed = IF Has(settings, "fanspeed")
                                         THEN Some(settings["fanspeed"]) ELSE @])]
              ELSE miners
       /\ ret' = NoRet
       /\ last_poll' = NoPoll
       /\ UNCHANGED <<now, thermal_states, global_auto_tune_enabled, emergency_at,
                      alertVars, miner_alert_states, overheat_recovery_states,
                      monitor, streak, monitoring_active, monitoring_thread,
                      loops, threads, lock, db, btc_fetcher>>

\* batch_settings (POST /api/batch/settings)
batch_settings(ips, settings) ==
    LET invalid == batch_validation(ips, settings)
    IN /\ http' = [handler |-> "batch_settings", ips |-> ips, data |-> settings,
                   code |-> IF invalid # 0 THEN invalid ELSE 200]
       /\ net_calls' = IF invalid # 0 THEN <<>>
                       ELSE batch_calls(miners, ips, settings, 1)
       /\ ret' = NoRet
       /\ last_poll' = NoPoll
       /\ UNCHANGED <<now, thermal_states, global_auto_tune_enabled, emergency_at,
                      alertVars, miners, miner_alert_states,
                      overheat_recovery_states, monitor, streak,
                      monitoring_active, monitoring_thread, loops, threads, lock,
                      db, btc_fetcher>>

SettingsNext ==
    \/ discover_miners(RealIP, "BitAxe")
    \/ add_mock_miners(MockIP, "BitAxe Max", MockStatus)
    \/ \E ip \in {RealIP, MockIP, UnknownIP}, data \in SettingsInputs,
          ok \in BOOLEAN : update_miner_settings(ip, data, ok)
    \/ \E ips \in BatchIps, settings \in SettingsInputs \cup {<<>>} :
          batch_settings(ips, settings)

SpecSettings == SettingsInit /\ [][SettingsNext]_vars

(***************************************************************************)
(* C3. A settings request, to one miner or to a batch, that carries a      *)
(* core voltage outside 800-1400, a frequency outside 100-1000, a fan      *)
(* speed outside 0-100 or a target temperature outside 40-75 is answered   *)
(* with status 400 and no device is contacted for it.  The property is     *)
(* stated for requests that address at least one registered miner.         *)
(***************************************************************************)
OutsideBounds(data, key, lo, hi) ==
    Has(data, key) /\ (data[key] < lo \/ data[key] > hi)

OutOfRange(data) ==
    \/ OutsideBounds(data, "coreVoltage", 800, 1400)
    \/ OutsideBounds(data, "frequency", 100, 1000)
    \/ OutsideBounds(data, "fanSpeed", 0, 100)
    \/ OutsideBounds(data, "targetTemp", 40, 75)

AddressesMiner ==
    \E i \in 1..Len(http.ips) : http.ips[i] \in DOMAIN miners

C3_OutOfRangeRejected ==
    (http # NoRequest /\ AddressesMiner /\ OutOfRange(http.data)) =>
        /\ http.code = 400
        /\ net_calls = <<>>

(***************************************************************************)
(* Specification SpecOffline: the monitoring loop over one miner whose     *)
(* polls report only whether it responds.  A cycle follows the previous    *)
(* one after the update interval or, when it was held up, just under or    *)
(* just over an alert cooldown later.                                      *)
(***************************************************************************)
OfflineSleeps == {UPDATE_INTERVAL, alert_cooldown - 1}

OfflineStatuses ==
    {Status("online", None, None, None),
     Status("overheating", None, None, None),
     Status("offline", None, None, None)}

OfflineInit ==
    /\ now = 0
    /\ thermal_states = (RealIP :> ThermalState("Antminer S19"))
    /\ global_auto_tune_enabled = TRUE
    /\ ret = NoRet
    /\ emergency_at = (RealIP :> None)
    /\ alert_mgr = AlertManager
    /\ clock_origin = 0
    /\ miners = (RealIP :> Miner("Antminer S19", FALSE, None))
    /\ miner_alert_states = <<>>
    /\ overheat_recovery_states = {}
    /\ monitor = [phase |-> "schedule", pending |-> {}]
    /\ net_calls = <<>>
    /\ last_poll = NoPoll
    /\ streak = (RealIP :> NoStreak)
    /\ ServerIdle

OfflineNext ==
    \/ apply_mining_schedule([should_mine |-> TRUE, target_frequency |-> 0])
    \/ update_all_miners
    \/ \E device \in OfflineStatuses :
          update_miner(RealIP, device, TRUE, MaxOfflineAlerts)
    \/ \E d \in OfflineSleeps : monitor_sleep(d, MaxOfflineTime)

SpecOffline == OfflineInit /\ [][OfflineNext]_vars

\* The offline alerts the polls handed to the alert manager for a miner
\* since time t0
OfflineRaised(ip, t0) ==
    {i \in 1..Len(alert_mgr.fired) :
        /\ alert_mgr.fired[i].alert_type = "miner_offline"
        /\ alert_mgr.fired[i].miner_ip = ip
        /\ alert_mgr.fired[i].timestamp >= t0}

\* The offline alerts of a miner that were recorded and dispatched since t0
OfflineSent(ip, t0) ==
    {i \in 1..Len(alert_mgr.alert_history) :
        /\ alert_mgr.alert_history[i].alert_type = "miner_offline"
        /\ alert_mgr.alert_history[i].miner_ip = ip
        /\ alert_mgr.alert_history[i].timestamp >= t0}

\* The miner is in a run of failed polls that began when it was online
InOutage(ip) ==
    /\ streak[ip].start # None
    /\ streak[ip].before \in {"online", "overheating"}

(***************************************************************************)
(* C5. While a miner that was online fails its polls, exactly one offline  *)
(* alert has been raised for the outage, and it was raised by the first    *)
(* failed poll; this still holds after ten and more failed polls.          *)
(***************************************************************************)
C5_OneAlertPerOutage ==
    \A ip \in DOMAIN streak :
        InOutage(ip) =>
            /\ Cardinality(OfflineRaised(ip, Val(streak[ip].start))) = 1
            /\ \A i \in OfflineRaised(ip, Val(streak[ip].start)) :
                   alert_mgr.fired[i].timestamp = Val(streak[ip].start)
            /\ Cardinality(OfflineSent(ip, Val(streak[ip].start))) <= 1

C5_Witness ==
    /\ InOutage(RealIP)
    /\ streak[RealIP].len >= 10
    /\ Cardinality(OfflineRaised(RealIP, Val(streak[RealIP].start))) = 1
    /\ Cardinality(OfflineSent(RealIP, Val(streak[RealIP].start))) = 1

OfflineCooling(ip, t0) ==
    \E i \in 1..Len(alert_mgr.alert_history) :
        /\ alert_mgr.alert_history[i].alert_type = "miner_offline"
        /\ alert_mgr.alert_history[i].miner_ip = ip
        /\ alert_mgr.alert_history[i].timestamp < t0
        /\ t0 - alert_mgr.alert_history[i].timestamp < alert_cooldown

RequestThreads == {"request1", "request2"}
MainThread == "main"
LoopNames == <<"loop1", "loop2", "loop3">>

RequestOps == {"restart_miner", "batch_settings"}
RequestIPs == {RealIP, UnknownIP}
BatchRequest == ("frequency" :> 500)

Idle == [pc |-> "idle", op |-> "none", ip |-> ""]

ServerInit ==
    /\ now = 0
    /\ thermal_states = (RealIP :> ThermalState("BitAxe"))
    /\ global_auto_tune_enabled = TRUE
    /\ ret = NoRet
    /\ emergency_at = (RealIP :> None)
    /\ AlertsIdle
    /\ miners = (RealIP :> Miner("BitAxe", FALSE,
                                 Some(Status("online", Some(55), Some(485), Some(50)))))
    /\ miner_alert_states = <<>>
    /\ overheat_recovery_states = {}
    /\ monitor = [phase |-> "stopped", pending |-> {}]
    /\ net_calls = <<>>
    /\ last_poll = NoPoll
    /\ streak = (RealIP :> NoStreak)
    /\ http = NoRequest
    /\ monitoring_active = FALSE
    /\ monitoring_thread = None
    /\ loops = <<>>
    /\ threads = [t \in RequestThreads \cup {MainThread} |->
                     IF t = MainThread
                     THEN [pc |-> "serving", op |-> "app.run", ip |-> ""]
                     ELSE Idle]
    /\ lock = None
    /\ db = NoDb
    /\ btc_fetcher = BitcoinDataFetcher

\* What a step of a thread leaves alone besides the variables it names
ServerFrame == <<db, btc_fetcher, now, thermalVars, alertVars, miners, miner_alert_states,
                 overheat_recovery_states, monitor, last_poll, streak>>

\* A request arrives and is given a thread
request(t, op, ip) ==
    /\ threads[t].pc = "idle"
    /\ threads' = [threads EXCEPT ![t] = [pc |-> "before_request", op |-> op, ip |-> ip]]
    /\ net_calls' = <<>>
    /\ UNCHANGED <<ServerFrame, http, monitoring_active, monitoring_thread, loops, lock>>

\* csrf_protect, line 844: if not fleet.monitoring_active
csrf_protect(t) ==
    /\ threads[t].pc = "before_request"
    /\ threads' = [threads EXCEPT ![t].pc =
                      IF ~monitoring_active THEN "start_check" ELSE "handler"]
    /\ net_calls' = <<>>
    /\ UNCHANGED <<ServerFrame, http, monitoring_active, monitoring_thread, loops, lock>>

\* start_monitoring, line 664: if self.monitoring_active: return
start_monitoring_check(t) ==
    /\ threads[t].pc = "start_check"
    /\ threads' = [threads EXCEPT ![t].pc =
                      IF monitoring_active THEN "handler" ELSE "start_set"]
    /\ net_calls' = <<>>
    /\ UNCHANGED <<ServerFrame, http, monitoring_active, monitoring_thread, loops, lock>>

\* start_monitoring, line 668: self.monitoring_active = True
start_monitoring_set(t) ==
    /\ threads[t].pc = "start_set"
    /\ monitoring_active' = TRUE
    /\ threads' = [threads EXCEPT ![t].pc = "start_spawn"]
    /\ net_calls' = <<>>
    /\ UNCHANGED <<ServerFrame, http, monitoring_thread, loops, lock>>

\* start_monitoring, lines 698-699: the monitor_loop thread is started
start_monitoring_spawn(t) ==
    /\ threads[t].pc = "start_spawn"
    /\ Len(loops) < MaxLoops
    /\ loops' = Append(loops, "check")
    /\ monitoring_thread' = Some(LoopNames[Len(loops) + 1])
    /\ threads' = [threads EXCEPT ![t].pc = "handler"]
    /\ net_calls' = <<>>
    /\ UNCHANGED <<ServerFrame, http, monitoring_active, lock>>

\* The handler enters `with fleet.lock`
handler_lock(t) ==
    /\ threads[t].pc = "handler"
    /\ lock = None
    /\ lock' = Some(t)
    /\ threads' = [threads EXCEPT ![t].pc = "locked"]
    /\ net_calls' = <<>>
    /\ UNCHANGED <<ServerFrame, http, monitoring_active, monitoring_thread, loops>>

\* The device calls a handler makes for its request
handler_calls(op, ip) ==
    IF op = "restart_miner"
    THEN IF ip \in DOMAIN miners THEN <<NetCall(ip, "restart", None)>> ELSE <<>>
    ELSE batch_calls(miners, <<ip>>, BatchRequest, 1)

\* restart_miner (lines 972-980) and batch_settings (lines 1365-1378)
\* inside the lock, up to the device call; a request that reaches no
\* miner is answered and the lock released
handler_locked(t) ==
    /\ threads[t].pc = "locked"
    /\ LET calls == handler_calls(threads[t].op, threads[t].ip)
       IN IF calls = <<>>
          THEN /\ lock' = None
               /\ threads' = [threads EXCEPT ![t] = Idle]
               /\ net_calls' = <<>>
          ELSE /\ threads' = [threads EXCEPT ![t].pc = "in_call"]
               /\ net_calls' = calls
               /\ UNCHANGED lock
    /\ UNCHANGED <<ServerFrame, http, monitoring_active, monitoring_thread, loops>>

\* The device call returns, the handler leaves the lock and answers
handler_return(t) ==
    /\ threads[t].pc = "in_call"
    /\ lock' = IF lock = Some(t) THEN None ELSE lock
    /\ threads' = [threads EXCEPT ![t] = Idle]
    /\ net_calls' = <<>>
    /\ UNCHANGED <<ServerFrame, http, monitoring_active, monitoring_thread, loops>>

\* stop_monitoring, line 704: self.monitoring_active = False
stop_monitoring(t) ==
    /\ threads[t].pc = "serving"
    /\ monitoring_active' = FALSE
    /\ threads' = [threads EXCEPT ![t] = [pc |-> "join", op |-> "stop_monitoring",
                                          ip |-> ""]]
    /\ net_calls' = <<>>
    /\ UNCHANGED <<ServerFrame, http, monitoring_thread, loops, lock>>

\* stop_monitoring, lines 705-706: join(timeout=5) returns, the thread
\* having ended or not
stop_monitoring_join(t) ==
    /\ threads[t].pc = "join"
    /\ threads' = [threads EXCEPT ![t].pc = "stopped"]
    /\ net_calls' = <<>>
    /\ UNCHANGED <<ServerFrame, http, monitoring_active, monitoring_thread, loops, lock>>

\* monitor_loop, line 672: while self.monitoring_active
loop_check(i) ==
    /\ i \in DOMAIN loops
    /\ loops[i] = "check"
    /\ loops' = [loops EXCEPT ![i] =
                    IF monitoring_active THEN "schedule" ELSE "exited"]
    /\ net_calls' = <<>>
    /\ UNCHANGED <<ServerFrame, http, monitoring_active, monitoring_thread, threads, lock>>

\* _apply_mining_schedule: the miners are collected inside the lock and
\* the settings sent after it is released
loop_schedule(i, decision) ==
    /\ i \in DOMAIN loops
    /\ loops[i] = "schedule"
    /\ lock = None
    /\ loops' = [loops EXCEPT ![i] = "applying"]
    /\ LET to_adjust == {ip \in DOMAIN miners :
                            is_esp_miner(miners[ip].type)
                            /\ miners[ip].last_status # None}
           target == IF ~decision.should_mine THEN 100 ELSE decision.target_frequency
       IN net_calls' =
              IF ~decision.should_mine \/ decision.target_frequency > 0
              THEN Concat([k \in 1..Len(InOrder(to_adjust)) |->
                      <<NetCall(InOrder(to_adjust)[k], "apply_settings",
                                [frequency |-> validate_frequency(
                                     miners[InOrder(to_adjust)[k]].type, target)])>>])
              ELSE <<>>
    /\ UNCHANGED <<ServerFrame, http, monitoring_active, monitoring_thread, threads, lock>>

\* update_all_miners: the snapshot is taken inside the lock and the
\* miners polled after it is released
loop_update(i) ==
    /\ i \in DOMAIN loops
    /\ loops[i] = "applying"
    /\ lock = None
    /\ loops' = [loops EXCEPT ![i] = "polling"]
    /\ net_calls' = Concat([k \in 1..Len(InOrder(DOMAIN miners)) |->
                       IF miners[InOrder(DOMAIN miners)[k]].is_mock THEN <<>>
                       ELSE <<NetCall(InOrder(DOMAIN miners)[k], "get_status", None)>>])
    /\ UNCHANGED <<ServerFrame, http, monitoring_active, monitoring_thread, threads, lock>>

\* The polls of the cycle have returned
loop_polled(i) ==
    /\ i \in DOMAIN loops
    /\ loops[i] = "polling"
    /\ loops' = [loops EXCEPT ![i] = "sleep"]
    /\ net_calls' = <<>>
    /\ UNCHANGED <<ServerFrame, http, monitoring_active, monitoring_thread, threads, lock>>

\* monitor_loop, lines 690-694: the sleep ends, by itself or because the
\* flag was cleared
loop_sleep(i) ==
    /\ i \in DOMAIN loops
    /\ loops[i] = "sleep"
    /\ loops' = [loops EXCEPT ![i] = "check"]
    /\ net_calls' = <<>>
    /\ UNCHANGED <<ServerFrame, http, monitoring_active, monitoring_thread, threads, lock>>

ServerNext ==
    \/ \E t \in RequestThreads, op \in RequestOps, ip \in RequestIPs : request(t, op, ip)
    \/ \E t \in RequestThreads : csrf_protect(t)
    \/ \E t \in RequestThreads : start_monitoring_check(t)
    \/ \E t \in RequestThreads : start_monitoring_set(t)
    \/ \E t \in RequestThreads : start_monitoring_spawn(t)
    \/ \E t \in RequestThreads : handler_lock(t)
    \/ \E t \in RequestThreads : handler_locked(t)
    \/ \E t \in RequestThreads : handler_return(t)
    \/ stop_monitoring(MainThread)
    \/ stop_monitoring_join(MainThread)
    \/ \E i \in 1..Len(LoopNames) : loop_check(i)
    \/ \E i \in 1..Len(LoopNames), d \in ScheduleDecisions : loop_schedule(i, d)
    \/ \E i \in 1..Len(LoopNames) : loop_update(i)
    \/ \E i \in 1..Len(LoopNames) : loop_polled(i)
    \/ \E i \in 1..Len(LoopNames) : loop_sleep(i)

SpecServer == ServerInit /\ [][ServerNext]_vars

\* The monitor_loop threads that are running
LiveLoops == {i \in DOMAIN loops : loops[i] # "exited"}

(***************************************************************************)
(* C9. At most one background monitoring loop is running, whatever the     *)
(* interleaving of concurrent first requests and of start and stop.        *)
(***************************************************************************)
C9_SingleMonitorLoop == Cardinality(LiveLoops) <= 1

(***************************************************************************)
(* C10. No thread is in a device network call while it holds the registry  *)
(* lock.                                                                   *)
(***************************************************************************)
C10_NoDeviceCallUnderLock ==
    \A t \in DOMAIN threads :
        threads[t].pc = "in_call" => lock # Some(t)

(***************************************************************************)
(* Specification SpecAccess: the threads that touch the thermal-state      *)
(* registry.  The poll worker of the monitoring loop feeds a reading to    *)
(* the thermal manager, request threads run set_auto_tune and              *)
(* delete_miner, and discovery registers the miner again.  A step is what  *)
(* a thread does between two points at which another thread can run.      *)
(***************************************************************************)
AccessOps == {"set_auto_tune", "delete_miner"}
AccessTemps == {55, 64}
WorkerName == "worker1"

AccessInit ==
    /\ now = 0
    /\ thermal_states = (RealIP :> ThermalState("BitAxe"))
    /\ global_auto_tune_enabled = TRUE
    /\ ret = NoRet
    /\ emergency_at = (RealIP :> None)
    /\ AlertsIdle
    /\ miners = (RealIP :> Miner("BitAxe", FALSE, None))
    /\ miner_alert_states = <<>>
    /\ overheat_recovery_states = {}
    /\ monitor = [phase |-> "update", pending |-> {}]
    /\ net_calls = <<>>
    /\ last_poll = NoPoll
    /\ streak = (RealIP :> NoStreak)
    /\ http = NoRequest
    /\ monitoring_active = TRUE
    /\ monitoring_thread = Some(WorkerName)
    /\ loops = <<"update">>
    /\ threads = [t \in RequestThreads |-> Idle]
    /\ lock = None
    /\ db = NoDb
    /\ btc_fetcher = BitcoinDataFetcher

AccessFrame == <<db, btc_fetcher, now, global_auto_tune_enabled, ret, emergency_at, alertVars,
                 miner_alert_states, overheat_recovery_states, streak,
                 monitoring_active, monitoring_thread>>

\* A request for one of the two handlers arrives and is given a thread
access_request(t, op, ip) ==
    /\ threads[t].pc = "idle"
    /\ threads' = [threads EXCEPT ![t] = [pc |-> op, op |-> op, ip |-> ip]]
    /\ net_calls' = <<>>
    /\ UNCHANGED <<AccessFrame, thermal_states, miners, monitor, last_poll, http,
                   loops, lock>>

\* ThermalManager.set_auto_tune, line 660: if miner_ip in self.thermal_states
set_auto_tune_check(t) ==
    /\ threads[t].pc = "set_auto_tune"
    /\ IF threads[t].ip \in DOMAIN thermal_states
       THEN /\ threads' = [threads EXCEPT ![t].pc = "thermal_write"]
            /\ UNCHANGED http
       ELSE /\ threads' = [threads EXCEPT ![t] = Idle]
            /\ http' = [handler |-> "set_auto_tune", ips |-> <<threads[t].ip>>,
                        data |-> <<>>, code |-> 200]
    /\ net_calls' = <<>>
    /\ UNCHANGED <<AccessFrame, thermal_states, miners, monitor, last_poll, loops, lock>>

\* ThermalManager.set_auto_tune, line 661: the state is looked up again
\* and written; a state removed since the test raises KeyError, which the
\* handler answers with 500
set_auto_tune_write(t, enabled) ==
    /\ threads[t].pc = "thermal_write"
    /\ IF threads[t].ip \in DOMAIN thermal_states
       THEN /\ thermal_states' =
                   [thermal_states EXCEPT ![threads[t].ip].auto_tune_enabled = enabled]
            /\ http' = [handler |-> "set_auto_tune", ips |-> <<threads[t].ip>>,
                        data |-> <<>>, code |-> 200]
       ELSE /\ http' = [handler |-> "set_auto_tune", ips |-> <<threads[t].ip>>,
                        data |-> <<>>, code |-> 500]
            /\ UNCHANGED thermal_states
    /\ threads' = [threads EXCEPT ![t] = Idle]
    /\ net_calls' = <<>>
    /\ UNCHANGED <<AccessFrame, miners, monitor, last_poll, loops, lock>>

\* delete_miner, line 990: with fleet.lock
delete_miner_lock(t) ==
    /\ threads[t].pc = "delete_miner"
    /\ lock = None
    /\ lock' = Some(t)
    /\ threads' = [threads EXCEPT ![t].pc = "locked"]
    /\ net_calls' = <<>>
    /\ UNCHANGED <<AccessFrame, thermal_states, miners, monitor, last_poll, http, loops>>

\* f without the key k
Without(f, k) == [x \in DOMAIN f \ {k} |-> f[x]]

\* delete_miner, lines 991-1003: the miner and its thermal state are
\* removed, the lock is released and the request answered
delete_miner_remove(t) ==
    /\ threads[t].pc = "locked"
    /\ threads[t].op = "delete_miner"
    /\ IF threads[t].ip \in DOMAIN miners
       THEN /\ miners' = Without(miners, threads[t].ip)
            /\ thermal_states' = Without(thermal_states, threads[t].ip)
            /\ http' = [handler |-> "delete_miner", ips |-> <<threads[t].ip>>,
                        data |-> <<>>, code |-> 200]
       ELSE /\ http' = [handler |-> "delete_miner", ips |-> <<threads[t].ip>>,
                        data |-> <<>>, code |-> 404]
            /\ UNCHANGED <<miners, thermal_states>>
    /\ lock' = None
    /\ threads' = [threads EXCEPT ![t] = Idle]
    /\ net_calls' = <<>>
    /\ UNCHANGED <<AccessFrame, monitor, last_poll, loops>>

\* discover_miners, lines 249-261, finding the miner: the registration is
\* made inside the lock
access_discover(ip, miner_type) ==
    /\ lock = None
    /\ miners' = Put(miners, ip, Miner(miner_type, FALSE, None))
    /\ thermal_states' = register_miner(thermal_states, ip, miner_type)
    /\ net_calls' = <<NetCall(ip, "detect", None)>>
                    \o apply_stock_settings(ip, miner_type)
    /\ http' = [handler |-> "discover_miners", ips |-> <<>>, data |-> <<>>, code |-> 200]
    /\ UNCHANGED <<AccessFrame, monitor, last_poll, loops, threads, lock>>

\* update_all_miners, lines 271-275: the snapshot, taken inside the lock
worker_snapshot(i) ==
    /\ loops[i] = "update"
    /\ lock = None
    /\ monitor' = [monitor EXCEPT !.pending = DOMAIN miners]
    /\ loops' = [loops EXCEPT ![i] = IF DOMAIN miners = {} THEN "sleep" ELSE "polling"]
    /\ net_calls' = <<>>
    /\ last_poll' = NoPoll
    /\ UNCHANGED <<AccessFrame, thermal_states, miners, http, threads, lock>>

\* update_miner up to update_miner_stats, line 493: the miner of the
\* snapshot is polled and the thermal manager tests whether it is registered
worker_stats_check(i, ip) ==
    /\ loops[i] = "polling"
    /\ ip \in monitor.pending
    /\ loops' = [loops EXCEPT ![i] =
                    IF ip \in DOMAIN thermal_states THEN "stats_write" ELSE "sleep"]
    /\ net_calls' = <<NetCall(ip, "get_status", None)>>
    /\ last_poll' = [ip |-> ip, status |-> "online", restart |-> None]
    /\ UNCHANGED <<AccessFrame, thermal_states, miners, monitor, http, threads, lock>>

\* update_miner_stats, lines 497-509: the state is looked up again and
\* written; a state removed since the test raises KeyError, which
\* update_miner logs
worker_stats_write(i, temperature) ==
    /\ loops[i] = "stats_write"
    /\ IF last_poll.ip \in DOMAIN thermal_states
       THEN /\ thermal_states' =
                   [thermal_states EXCEPT ![last_poll.ip] =
                       update_miner_stats_state(@, temperature, None, None)]
            /\ UNCHANGED last_poll
       ELSE /\ last_poll' = [last_poll EXCEPT !.status = "KeyError"]
            /\ UNCHANGED thermal_states
    /\ loops' = [loops EXCEPT ![i] = "sleep"]
    /\ net_calls' = <<>>
    /\ UNCHANGED <<AccessFrame, miners, monitor, http, threads, lock>>

\* monitor_loop, lines 689-694: the sleep between two cycles
worker_sleep(i) ==
    /\ loops[i] = "sleep"
    /\ loops' = [loops EXCEPT ![i] = "update"]
    /\ monitor' = [monitor EXCEPT !.pending = {}]
    /\ net_calls' = <<>>
    /\ last_poll' = NoPoll
    /\ UNCHANGED <<AccessFrame, thermal_states, miners, http, threads, lock>>

AccessNext ==
    \/ \E t \in RequestThreads, op \in AccessOps : access_request(t, op, RealIP)
    \/ \E t \in RequestThreads : set_auto_tune_check(t)
    \/ \E t \in RequestThreads, e \in BOOLEAN : set_auto_tune_write(t, e)
    \/ \E t \in RequestThreads : delete_miner_lock(t)
    \/ \E t \in RequestThreads : delete_miner_remove(t)
    \/ access_discover(RealIP, "BitAxe")
    \/ worker_snapshot(1)
    \/ worker_stats_check(1, RealIP)
    \/ \E temp \in AccessTemps : worker_stats_write(1, temp)
    \/ worker_sleep(1)

SpecAccess == AccessInit /\ [][AccessNext]_vars

(***************************************************************************)
(* C11. A thread that is between looking a ThermalState up and using it    *)
(* holds the registry lock, so no other thread mutates or removes the      *)
(* state meanwhile: no handler and no poll worker ever finds the state     *)
(* gone.                                                                   *)
(***************************************************************************)
C11_ThermalAccessUnderLock ==
    /\ \A t \in DOMAIN threads :
           threads[t].pc = "thermal_write" => lock = Some(t)
    /\ \A i \in DOMAIN loops :
           loops[i] = "stats_write" => lock = Some(WorkerName)
    /\ http.code # 500
    /\ last_poll.status # "KeyError"

(***************************************************************************)
(* Specification SpecCsrf: the before_request and after_request hooks of   *)
(* app.py around one request at a time.  http holds the last request and   *)
(* its answer.                                                             *)
(***************************************************************************)
Methods == {"GET", "POST", "PUT", "DELETE", "PATCH"}
Tokens == {"", "a3f1", "9c0e"}
Paths == {"/api/miners", "/static/app.js"}

\* app.py line 848: the paths that require authentication
auth_path(path) == path \in {"/", "/api/miners"}

\* A request as the hooks see it
Request(method, path, token, cookie_token, valid_auth, valid_payload) ==
    [method |-> method, path |-> path, token |-> token,
     cookie_token |-> cookie_token, valid_auth |-> valid_auth,
     valid_payload |-> valid_payload]

\* The test of line 864 without the two emptiness tests
csrf_failed_compare_only(token, cookie_token) == token # cookie_token

\* app.py line 864: not token or not cookie_token or not compare_digest(...)
csrf_failed(token, cookie_token) ==
    token = "" \/ cookie_token = "" \/ token # cookie_token

\* csrf_protect, lines 848-865: the answer of the hook, None when the
\* request goes on to its handler
csrf_protect_response(auth_enabled, req) ==
    IF auth_enabled /\ auth_path(req.path) /\ ~req.valid_auth
    THEN Some(401)
    ELSE IF req.method \in {"POST", "PUT", "DELETE", "PATCH"}
            /\ csrf_failed(req.token, req.cookie_token)
         THEN Some(403)
         ELSE None

\* set_csrf_cookie, lines 872-880
set_csrf_cookie(req, fresh) ==
    IF req.cookie_token = "" THEN Some(fresh) ELSE None

CsrfInit ==
    /\ now = 0
    /\ thermal_states = <<>>
    /\ global_auto_tune_enabled = TRUE
    /\ ret = NoRet
    /\ emergency_at = <<>>
    /\ AlertsIdle
    /\ FleetIdle
    /\ \E auth_enabled \in BOOLEAN :
           http = [auth_enabled |-> auth_enabled, request |-> None, code |-> 0,
                   handler |-> FALSE, set_cookie |-> None]
    /\ monitoring_active = FALSE
    /\ monitoring_thread = None
    /\ loops = <<>>
    /\ threads = <<>>
    /\ lock = None
    /\ db = NoDb
    /\ btc_fetcher = BitcoinDataFetcher

\* One request through csrf_protect, its handler and set_csrf_cookie
handle_request(req, fresh) ==
    LET r == csrf_protect_response(http.auth_enabled, req)
    IN  /\ IF monitoring_active
           THEN UNCHANGED <<monitoring_active, monitoring_thread, loops>>
           ELSE /\ monitoring_active' = TRUE
                /\ monitoring_thread' = Some(LoopNames[1])
                /\ loops' = <<"check">>
        /\ http' = [auth_enabled |-> http.auth_enabled,
                    request |-> Some(req),
                    code |-> IF r # None THEN Val(r)
                             ELSE IF req.valid_payload THEN 200 ELSE 400,
                    handler |-> (r = None),
                    set_cookie |-> set_csrf_cookie(req, fresh)]
        /\ UNCHANGED <<db, btc_fetcher, now, thermalVars, alertVars, fleetVars, threads, lock>>

CsrfNext ==
    \E method \in Methods, path \in Paths, token \in Tokens, cookie_token \in Tokens,
       valid_auth \in BOOLEAN, valid_payload \in BOOLEAN, fresh \in Tokens \ {""} :
        handle_request(Request(method, path, token, cookie_token, valid_auth,
                               valid_payload), fresh)

SpecCsrf == CsrfInit /\ [][CsrfNext]_vars

\* The last request was state-changing and its CSRF header is missing or
\* differs from its csrf_token cookie
CsrfMismatch ==
    /\ http.request # None
    /\ Val(http.request).method \in {"POST", "PUT", "DELETE", "PATCH"}
    /\ \/ Val(http.request).token = ""
       \/ Val(http.request).cookie_token = ""
       \/ Val(http.request).token # Val(http.request).cookie_token

\* The request was turned away by the authentication test
AuthRejects ==
    /\ http.auth_enabled
    /\ auth_path(Val(http.request).path)
    /\ ~Val(http.request).valid_auth

(***************************************************************************)
(* C12 as stated. A state-changing request whose X-CSRF-Token header is    *)
(* missing or differs from the csrf_token cookie is answered with 403 and  *)
(* reaches no handler.                                                     *)
(***************************************************************************)
C12_MismatchRejected403 ==
    CsrfMismatch => (http.code = 403 /\ ~http.handler)

(***************************************************************************)
(* C12 amended. Such a request reaches no handler whatever its payload;    *)
(* it is answered with 401 when authentication is configured, the path is  *)
(* protected and the credentials are invalid, and with 403 otherwise.      *)
(***************************************************************************)
C12_MismatchRejectedBeforeHandler ==
    CsrfMismatch =>
        /\ ~http.handler
        /\ http.code = IF AuthRejects THEN 401 ELSE 403

\* a POST with a valid payload, valid credentials and a wrong token was answered
C12_Witness ==
    /\ CsrfMismatch
    /\ Val(http.request).valid_payload
    /\ Val(http.request).token # ""
    /\ Val(http.request).cookie_token # ""
    /\ ~AuthRejects
    /\ http.code = 403

(***************************************************************************)
(* Specification SpecTune: the temperature control of one registered       *)
(* miner.  Readings around the dead band of its profile are fed, the       *)
(* control is evaluated, auto-tune is switched on and off, and time        *)
(* passes in steps of one adjustment interval.                             *)
(***************************************************************************)
MaxTuneTime == 1
TuneTypes == {"Antminer S19"}
TuneFans == {None, Some(95), Some(100)}

\* Temperatures at and next to the edges of the dead band, and at the
\* warning and critical thresholds
TuneTemps(p) ==
    {p.optimal_temp - p.temp_hysteresis - 1, p.optimal_temp - p.temp_hysteresis,
     p.optimal_temp + p.temp_hysteresis, p.optimal_temp + p.temp_hysteresis + 1,
     p.warning_temp, p.critical_temp}

\* Reported frequencies: none, and one less than a step above the minimum
TuneFreqs(p) == {None, Some(p.min_freq + 5)}

TuneInit ==
    /\ now = 0
    /\ \E ty \in TuneTypes :
           thermal_states = (ThermalIP :> ThermalState(ty))
    /\ global_auto_tune_enabled = TRUE
    /\ ret = NoRet
    /\ emergency_at = (ThermalIP :> None)
    /\ AlertsIdle
    /\ FleetIdle
    /\ ServerIdle

\* Time passes, up to max_time
Pass(d, max_time) ==
    /\ now + d <= max_time
    /\ Tick(d)

TuneNext ==
    \/ Pass(adjustment_interval, MaxTuneTime)
    \/ \E t \in TuneTemps(thermal_states[ThermalIP].profile), f \in TuneFans,
          q \in TuneFreqs(thermal_states[ThermalIP].profile) :
          update_miner_stats(ThermalIP, t, f, q)
    \/ calculate_optimal_frequency(ThermalIP)
    \/ \E e \in BOOLEAN : set_auto_tune(ThermalIP, e)
    \/ \E e \in BOOLEAN : set_global_auto_tune(e)

SpecTune == TuneInit /\ [][TuneNext]_vars

\* The step is an evaluation of the registered miner
Evaluated == ret' # NoRet

\* The thermal state the step starts from and the one it leaves
Before == thermal_states[ThermalIP]
After == thermal_states'[ThermalIP]

\* The evaluation would get past its emergency tests: no cooldown is
\* running and the temperature is below the critical threshold
PastEmergency ==
    /\ ~check_emergency_cooldown(Before, now).result
    /\ Before.current_temp < Before.profile.critical_temp

\* The evaluation would reach the temperature-based adjustment
Adjusting ==
    /\ PastEmergency
    /\ Before.auto_tune_enabled
    /\ global_auto_tune_enabled
    /\ can_adjust_frequency(Before, now)

\* The step leaves frequency and fan speed as they are and asks for no change
NoChange ==
    /\ After.current_freq = Before.current_freq
    /\ After.current_fan_speed = Before.current_fan_speed
    /\ After.last_adjustment = Before.last_adjustment
    /\ ret'.freq = Before.current_freq
    /\ ret'.fan = None

(***************************************************************************)
(* C15. An evaluation of a miner whose temperature lies inside             *)
(* [optimal - hysteresis, optimal + hysteresis] and for which no           *)
(* emergency cooldown is running changes neither the frequency nor the     *)
(* fan speed, whatever was fed before; during a cooldown it leaves the     *)
(* state's frequency and fan speed as they are as well.                    *)
(***************************************************************************)
InDeadBand(s) ==
    /\ s.current_temp >= s.profile.optimal_temp - s.profile.temp_hysteresis
    /\ s.current_temp <= s.profile.optimal_temp + s.profile.temp_hysteresis

C15_DeadBandHolds ==
    [][(Evaluated /\ InDeadBand(Before)) =>
          /\ After.current_freq = Before.current_freq
          /\ After.current_fan_speed = Before.current_fan_speed
          /\ ~check_emergency_cooldown(Before, now).result => NoChange]_vars

\* an evaluation at the upper edge of the dead band with the fan below its
\* maximum, made after a reading above the band, kept frequency and fan
C15_Witness ==
    /\ ret # NoRet
    /\ ret.reason = "In optimal range"
    /\ thermal_states[ThermalIP].current_temp =
           thermal_states[ThermalIP].profile.optimal_temp
           + thermal_states[ThermalIP].profile.temp_hysteresis
    /\ thermal_states[ThermalIP].last_temp >
           thermal_states[ThermalIP].current_temp
    /\ thermal_states[ThermalIP].current_fan_speed = 95

\* The step would be made less than one adjustment interval (30 s) after
\* the last adjustment
TooSoon ==
    /\ Before.last_adjustment # None
    /\ now - Val(Before.last_adjustment) < adjustment_interval

(***************************************************************************)
(* C16. An evaluation made less than 30 s after the last adjustment, and   *)
(* that is not an emergency shutdown, changes neither frequency nor fan    *)
(* speed; every adjustment the temperature control makes is stamped, and   *)
(* made at least 30 s after the previous stamp.                            *)
(***************************************************************************)
C16_RateLimited ==
    [][Evaluated =>
          /\ (TooSoon /\ PastEmergency) => NoChange
          /\ (TooSoon /\ ~PastEmergency) =>
                 /\ After.current_fan_speed = Before.current_fan_speed
                 /\ After.current_freq \in {Before.current_freq, 0}
                 /\ After.last_adjustment = Before.last_adjustment
          /\ (PastEmergency /\ (After.current_freq # Before.current_freq
                                \/ After.current_fan_speed # Before.current_fan_speed)) =>
                 /\ After.last_adjustment = Some(now)
                 /\ Before.last_adjustment # None =>
                        now - Val(Before.last_adjustment) >= adjustment_interval]_vars

\* an evaluation of a miner above the dead band with fan headroom, made
\* in the same interval as the adjustment before it, was held back
C16_Witness ==
    /\ ret # NoRet
    /\ ret.reason = "Too soon since last adjustment"
    /\ thermal_states[ThermalIP].last_adjustment = Some(now)
    /\ now > 0
    /\ thermal_states[ThermalIP].current_temp >
           thermal_states[ThermalIP].profile.optimal_temp
           + thermal_states[ThermalIP].profile.temp_hysteresis
    /\ thermal_states[ThermalIP].current_fan_speed < max_fan_speed

\* a second adjustment was made one interval after the first
C16_WitnessNextInterval ==
    /\ ret # NoRet
    /\ ret.reason = "Above optimal, increasing fan"
    /\ thermal_states[ThermalIP].last_adjustment = Some(now)
    /\ thermal_states[ThermalIP].current_fan_speed = 70
    /\ now = adjustment_interval

\* The temperature is above the dead band and below the warning threshold
AboveOptimal(s) ==
    /\ s.current_temp > s.profile.optimal_temp + s.profile.temp_hysteresis
    /\ s.current_temp < s.profile.warning_temp

(***************************************************************************)
(* C17. An evaluation that reaches the temperature control with a          *)
(* temperature above optimal + hysteresis and below the warning            *)
(* threshold raises the fan by one step (at most to 100) and keeps the     *)
(* frequency while the fan is below 100; with the fan at 100 it keeps      *)
(* the fan and lowers the frequency by one step (at most to the            *)
(* profile's minimum).  So the frequency is lowered only if the fan is     *)
(* at its maximum.                                                         *)
(***************************************************************************)
C17_FanBeforeFrequency ==
    [][(Evaluated /\ Adjusting /\ AboveOptimal(Before)) =>
          /\ Before.current_fan_speed < 100 =>
                 /\ After.current_fan_speed = Min(100, Before.current_fan_speed + 10)
                 /\ After.current_freq = Before.current_freq
                 /\ ret'.freq = Before.current_freq
                 /\ ret'.fan = Some(After.current_fan_speed)
          /\ Before.current_fan_speed >= 100 =>
                 /\ After.current_fan_speed = Before.current_fan_speed
                 /\ After.current_freq =
                        Max(Before.profile.min_freq,
                            Before.current_freq - Before.profile.freq_step)
                 /\ ret'.freq = After.current_freq
                 /\ ret'.fan = None
          /\ After.current_freq < Before.current_freq =>
                 Before.current_fan_speed >= 100]_vars

\* the fan was at 100 and the frequency went down by one step
C17_Witness ==
    /\ ret # NoRet
    /\ ret.reason = "Above optimal, fan at max, reducing frequency"
    /\ thermal_states[ThermalIP].current_fan_speed = 100
    /\ thermal_states[ThermalIP].current_freq =
           thermal_states[ThermalIP].profile.stock_freq
           - thermal_states[ThermalIP].profile.freq_step
    /\ AboveOptimal(thermal_states[ThermalIP])

\* the fan had headroom: it went from 95 to 100 and the frequency stayed
C17_WitnessHeadroom ==
    /\ ret # NoRet
    /\ ret.reason = "Above optimal, increasing fan"
    /\ ret.fan = Some(100)
    /\ thermal_states[ThermalIP].current_freq =
           thermal_states[ThermalIP].profile.stock_freq
    /\ AboveOptimal(thermal_states[ThermalIP])

(***************************************************************************)
(* C18. With auto-tune switched off, globally or for the miner, an         *)
(* evaluation of a miner that is not in an emergency cooldown and whose    *)
(* temperature is below the critical threshold changes neither the         *)
(* frequency nor the fan speed and asks for no change, at any              *)
(* temperature.                                                            *)
(***************************************************************************)
C18_DisabledAutoTuneHolds ==
    [][(Evaluated /\ PastEmergency
        /\ (~Before.auto_tune_enabled \/ ~global_auto_tune_enabled)) =>
          /\ NoChange
          /\ ret'.reason = "Auto-tune disabled"]_vars

\* auto-tune was off for the miner only, the temperature at the warning
\* threshold, and the evaluation left frequency and fan alone
C18_Witness ==
    /\ ret # NoRet
    /\ ret.reason = "Auto-tune disabled"
    /\ ~thermal_states[ThermalIP].auto_tune_enabled
    /\ global_auto_tune_enabled
    /\ thermal_states[ThermalIP].current_temp =
           thermal_states[ThermalIP].profile.warning_temp
    /\ thermal_states[ThermalIP].current_fan_speed < max_fan_speed

\* auto-tune was off globally only, the temperature below the dead band
C18_WitnessGlobal ==
    /\ ret # NoRet
    /\ ret.reason = "Auto-tune disabled"
    /\ thermal_states[ThermalIP].auto_tune_enabled
    /\ ~global_auto_tune_enabled
    /\ thermal_states[ThermalIP].current_temp <
           thermal_states[ThermalIP].profile.optimal_temp
           - thermal_states[ThermalIP].profile.temp_hysteresis

(***************************************************************************)
(* Specification SpecRegistry: the operations that add miners to and       *)
(* remove them from the miner registry and the thermal-state registry.     *)
(* Each runs inside the registry lock, or during construction, and is one  *)
(* step.                                                                   *)
(***************************************************************************)
SecondIP == "10.0.0.2"
RegistryIPs == {RealIP, SecondIP}
RegistryTypes == {"BitAxe", "Antminer S19"}

\* The two registries as a pair
Registry(ms, ts) == [miners |-> ms, thermal_states |-> ts]

\* FleetManager._load_miners_from_db over the stored addresses the
\* detector still finds, in order
RECURSIVE load_miners_from_db(_, _, _)
load_miners_from_db(reg, found, miner_type) ==
    IF found = <<>> THEN reg
    ELSE load_miners_from_db(
             Registry(Put(reg.miners, Head(found), Miner(miner_type, FALSE, None)),
                      register_miner(reg.thermal_states, Head(found), miner_type)),
             Tail(found), miner_type)

\* The removal of a miner that leaves its thermal state behind
remove_miner_keep_thermal(reg, ip) ==
    Registry(Without(reg.miners, ip), reg.thermal_states)

\* delete_miner lines 992-994, batch_remove lines 1412-1414
remove_miner(reg, ip) ==
    Registry(Without(reg.miners, ip),
             IF ip \in DOMAIN reg.thermal_states
             THEN Without(reg.thermal_states, ip) ELSE reg.thermal_states)

\* batch_remove, lines 1407-1419: the registries it leaves
RECURSIVE batch_remove_registry(_, _)
batch_remove_registry(reg, ips) ==
    IF ips = <<>> THEN reg
    ELSE batch_remove_registry(
             IF Head(ips) \in DOMAIN reg.miners THEN remove_miner(reg, Head(ips))
             ELSE reg,
             Tail(ips))

RegistryInit ==
    /\ now = 0
    /\ \E found \in {<<>>, <<RealIP>>, <<RealIP, SecondIP>>}, ty \in RegistryTypes :
           LET reg == load_miners_from_db(Registry(<<>>, <<>>), found, ty)
           IN /\ miners = reg.miners
              /\ thermal_states = reg.thermal_states
              /\ emergency_at = [ip \in DOMAIN reg.miners |-> None]
              /\ streak = [ip \in DOMAIN reg.miners |-> NoStreak]
    /\ global_auto_tune_enabled = TRUE
    /\ ret = NoRet
    /\ AlertsIdle
    /\ miner_alert_states = <<>>
    /\ overheat_recovery_states = {}
    /\ monitor = [phase |-> "schedule", pending |-> {}]
    /\ net_calls = <<>>
    /\ last_poll = NoPoll
    /\ ServerIdle

RegistryFrame == <<db, btc_fetcher, now, global_auto_tune_enabled, ret, emergency_at, alertVars,
                   miner_alert_states, overheat_recovery_states, monitor, net_calls,
                   last_poll, streak, monitoring_active, monitoring_thread, loops,
                   threads, lock>>

\* delete_miner (DELETE /api/miner/<ip>)
delete_miner(ip) ==
    /\ IF ip \in DOMAIN miners
       THEN LET reg == remove_miner(Registry(miners, thermal_states), ip)
            IN /\ miners' = reg.miners
               /\ thermal_states' = reg.thermal_states
               /\ http' = [handler |-> "delete_miner", ips |-> <<ip>>,
                           data |-> <<>>, code |-> 200]
       ELSE /\ http' = [handler |-> "delete_miner", ips |-> <<ip>>,
                        data |-> <<>>, code |-> 404]
            /\ UNCHANGED <<miners, thermal_states>>
    /\ UNCHANGED RegistryFrame

\* batch_remove (POST /api/batch/remove)
batch_remove(ips) ==
    /\ IF ips = <<>>
       THEN /\ http' = [handler |-> "batch_remove", ips |-> ips,
                        data |-> <<>>, code |-> 400]
            /\ UNCHANGED <<miners, thermal_states>>
       ELSE LET reg == batch_remove_registry(Registry(miners, thermal_states), ips)
            IN /\ miners' = reg.miners
               /\ thermal_states' = reg.thermal_states
               /\ http' = [handler |-> "batch_remove", ips |-> ips,
                           data |-> <<>>, code |-> 200]
    /\ UNCHANGED RegistryFrame

\* clear_mock_miners (POST /api/test/clear-miners)
clear_mock_miners ==
    /\ IF ENABLE_TEST_ENDPOINTS
       THEN /\ miners' = <<>>
            /\ thermal_states' = <<>>
            /\ http' = [handler |-> "clear_mock_miners", ips |-> <<>>,
                        data |-> <<>>, code |-> 200]
       ELSE /\ http' = [handler |-> "clear_mock_miners", ips |-> <<>>,
                        data |-> <<>>, code |-> 404]
            /\ UNCHANGED <<miners, thermal_states>>
    /\ UNCHANGED RegistryFrame

RegistryNext ==
    \/ \E ip \in RegistryIPs, ty \in RegistryTypes : discover_miners(ip, ty)
    \/ add_mock_miners(MockIP, "BitAxe Max", MockStatus)
    \/ \E ip \in RegistryIPs \cup {MockIP} : delete_miner(ip)
    \/ \E ips \in {<<>>, <<RealIP>>, <<RealIP, MockIP>>, <<SecondIP, RealIP, SecondIP>>} :
          batch_remove(ips)
    \/ clear_mock_miners

SpecRegistry == RegistryInit /\ [][RegistryNext]_vars

C19_WitnessBatch ==
    /\ http.handler = "batch_remove"
    /\ http.ips = <<RealIP, MockIP>>
    /\ DOMAIN miners = {SecondIP}
    /\ DOMAIN thermal_states = {SecondIP}

(***************************************************************************)
(* energy.py: the time-of-use rates (EnergyRateManager).  Rates are in     *)
(* cents per kWh, times of day are <<hour, minute>>.  The store is an      *)
(* energy_rates table whose calls each take effect on their own.           *)
(***************************************************************************)
\* Database.delete_all_energy_rates
delete_all_energy_rates(d) == [d EXCEPT !.energy_rates = <<>>]

\* Database.add_energy_rate
add_energy_rate(d, row) == [d EXCEPT !.energy_rates = Append(@, row)]

\* The keys set_tou_rates reads with rate[...]
RateKeys == {"start_time", "end_time", "rate_per_kwh"}

\* The row set_tou_rates stores for one entry of its argument
rate_row(rate) ==
    [start_time |-> rate["start_time"], end_time |-> rate["end_time"],
     rate_per_kwh |-> rate["rate_per_kwh"],
     day_of_week |-> IF "day_of_week" \in DOMAIN rate THEN rate["day_of_week"]
                     ELSE None]

\* The loop of set_tou_rates, lines 1424-1432: the database it leaves and
\* whether it raised (KeyError on an entry that lacks a key)
RECURSIVE add_rates(_, _)
add_rates(d, rates) ==
    IF rates = <<>> THEN [db |-> d, raised |-> FALSE]
    ELSE IF ~(RateKeys \subseteq DOMAIN Head(rates))
    THEN [db |-> d, raised |-> TRUE]
    ELSE add_rates(add_energy_rate(d, rate_row(Head(rates))), Tail(rates))

\* EnergyRateManager.set_tou_rates
set_tou_rates_db(d, rates) == add_rates(delete_all_energy_rates(d), rates)

\* EnergyRateManager._time_in_range with the end of every window inclusive
time_in_range_end_inclusive(current, start, end) ==
    IF ~ValidHM(current) \/ ~ValidHM(start) \/ ~ValidHM(end) THEN FALSE
    ELSE IF TimeLeq(start, end)
    THEN TimeLeq(start, current) /\ TimeLeq(current, end)
    ELSE TimeLeq(start, current) \/ TimeLeq(current, end)

\* EnergyRateManager._time_in_range
time_in_range(current, start, end) ==
    IF ~ValidHM(current) \/ ~ValidHM(start) \/ ~ValidHM(end) THEN FALSE
    ELSE LET end_is_eod == (end = <<23, 59>>)
         IN IF TimeLeq(start, end)
            THEN IF end_is_eod
                 THEN TimeLeq(start, current) /\ TimeLeq(current, end)
                 ELSE TimeLeq(start, current) /\ TimeLt(current, end)
            ELSE IF end_is_eod
                 THEN TimeLeq(start, current) \/ TimeLeq(current, end)
                 ELSE TimeLeq(start, current) \/ TimeLt(current, end)

\* The fallback of get_current_rate with no default_rate configured: 0.12
DEFAULT_RATE == 12

\* EnergyRateManager.get_current_rate over the stored rows, from row i on
RECURSIVE current_rate_from(_, _, _, _)
current_rate_from(rates, i, current_time, current_day) ==
    IF i > Len(rates) THEN DEFAULT_RATE
    ELSE IF rates[i].day_of_week # None /\ Val(rates[i].day_of_week) # current_day
    THEN current_rate_from(rates, i + 1, current_time, current_day)
    ELSE IF time_in_range(current_time, rates[i].start_time, rates[i].end_time)
    THEN rates[i].rate_per_kwh
    ELSE current_rate_from(rates, i + 1, current_time, current_day)

(***************************************************************************)
(* Specification SpecRates: the rate schedule is replaced and queried.     *)
(***************************************************************************)
\* A well-formed entry of a rate list
Rate(start_time, end_time, rate_per_kwh) ==
    ("start_time" :> start_time) @@ ("end_time" :> end_time)
    @@ ("rate_per_kwh" :> rate_per_kwh)

\* Entries of the request body of POST /api/energy/rates: three windows
\* that tile the day, one that crosses midnight, and one without a price
RateEntries ==
    {Rate(<<0, 0>>, <<14, 0>>, 9),
     Rate(<<14, 0>>, <<19, 0>>, 17),
     Rate(<<19, 0>>, <<23, 59>>, 11),
     Rate(<<22, 0>>, <<6, 0>>, 7),
     ("start_time" :> <<0, 0>>) @@ ("end_time" :> <<23, 59>>)}

MaxRates == 2

\* The rate lists of at most MaxRates entries
RateLists == UNION {[1..n -> RateEntries] : n \in 0..MaxRates}

\* The times of day asked about
QueryTimes == {<<0, 0>>, <<5, 59>>, <<6, 0>>, <<13, 59>>, <<14, 0>>, <<18, 59>>,
               <<19, 0>>, <<23, 58>>, <<23, 59>>}

RatesInit ==
    /\ now = 0
    /\ thermal_states = <<>>
    /\ global_auto_tune_enabled = TRUE
    /\ ret = NoRet
    /\ emergency_at = <<>>
    /\ AlertsIdle
    /\ FleetIdle
    /\ http = [handler |-> "none", request |-> <<>>, before |-> <<>>,
               code |-> 0, result |-> 0]
    /\ monitoring_active = FALSE
    /\ monitoring_thread = None
    /\ loops = <<>>
    /\ threads = <<>>
    /\ lock = None
    /\ db = NoDb
    /\ btc_fetcher = BitcoinDataFetcher

RatesFrame == <<now, thermalVars, alertVars, fleetVars, monitoring_active,
                monitoring_thread, loops, threads, lock, btc_fetcher>>

\* energy_rates (POST /api/energy/rates) with custom rates
set_tou_rates(rates) ==
    LET r == set_tou_rates_db(db, rates)
    IN /\ db' = r.db
       /\ http' = [handler |-> "set_tou_rates", request |-> rates,
                   before |-> db.energy_rates,
                   code |-> IF r.raised THEN 500 ELSE 200, result |-> 0]
       /\ UNCHANGED RatesFrame

\* EnergyRateManager.get_current_rate at a time of day of a Monday
get_current_rate(current_time) ==
    /\ http' = [handler |-> "get_current_rate", request |-> current_time,
                before |-> db.energy_rates, code |-> 200,
                result |-> current_rate_from(db.energy_rates, 1, current_time,
                                             "Monday")]
    /\ UNCHANGED <<db, RatesFrame>>

RatesNext ==
    \/ \E rates \in RateLists : set_tou_rates(rates)
    \/ \E current_time \in QueryTimes : get_current_rate(current_time)

SpecRates == RatesInit /\ [][RatesNext]_vars

\* The rows a list of well-formed entries is stored as
RowsOf(rates) == [i \in 1..Len(rates) |-> rate_row(rates[i])]

(***************************************************************************)
(* C21. After a replacement of the rate schedule the table holds exactly   *)
(* the new rows if the replacement succeeded, and exactly the rows it      *)
(* held before if it failed.                                               *)
(***************************************************************************)
C21_ReplacementAllOrNothing ==
    http.handler = "set_tou_rates" =>
        IF http.code = 200
        THEN db.energy_rates = RowsOf(http.request)
        ELSE db.energy_rates = http.before

\* Minutes since midnight of a time of day
Minutes(t) == t[1] * 60 + t[2]

\* The window of a row contains a time of day: from its start on, up to but
\* not including its end, an end of 23:59 being included; a window whose
\* end is before its start runs over midnight
WindowContains(row, t) ==
    LET s == Minutes(row.start_time)
        e == Minutes(row.end_time)
        c == Minutes(t)
        before_end == c < e \/ (e = 23 * 60 + 59 /\ c = e)
    IN IF s <= e THEN s <= c /\ before_end ELSE s <= c \/ before_end

\* The schedule of the example: 00:00-14:00 at 9 cents, 14:00-19:00 at 17
ExampleRates ==
    RowsOf(<<Rate(<<0, 0>>, <<14, 0>>, 9), Rate(<<14, 0>>, <<19, 0>>, 17)>>)

(***************************************************************************)
(* C24. A rate lookup returns the price of the first stored row whose      *)
(* window contains the time asked about, a window containing its start,    *)
(* not its end, except that an end of 23:59 is contained; with no such row *)
(* it returns the default.  With the example schedule 14:00 costs 17 cents *)
(* and 19:00 falls outside both windows.                                   *)
(***************************************************************************)
C24_RateLookupBoundaries ==
    http.handler = "get_current_rate" =>
        LET rows == http.before
            hits == {i \in 1..Len(rows) : WindowContains(rows[i], http.request)}
        IN /\ hits = {} => http.result = DEFAULT_RATE
           /\ hits # {} =>
                \E i \in hits : /\ \A j \in hits : i <= j
                                /\ http.result = rows[i].rate_per_kwh
           /\ rows = ExampleRates /\ http.request = <<14, 0>> => http.result = 17
           /\ rows = ExampleRates /\ http.request = <<19, 0>>
                => http.result = DEFAULT_RATE

\* 14:00 was looked up in the example schedule and costs 17 cents
C24_Witness ==
    /\ http.handler = "get_current_rate"
    /\ http.before = ExampleRates
    /\ http.request = <<14, 0>>
    /\ http.result = 17

\* 23:59 was looked up in a schedule whose only window ends at 23:59
C24_WitnessEndOfDay ==
    /\ http.handler = "get_current_rate"
    /\ http.before = RowsOf(<<Rate(<<19, 0>>, <<23, 59>>, 11)>>)
    /\ http.request = <<23, 59>>
    /\ http.result = 11

(***************************************************************************)
(* energy.py: the mining schedule (MiningScheduler, StrategyOptimizer).    *)
(* The store is a mining_schedules table whose calls each take effect on   *)
(* their own and which returns its rows in the order they were added.      *)
(***************************************************************************)
\* Database.delete_mining_schedule for every row of get_mining_schedules
clear_mining_schedules(d) == [d EXCEPT !.mining_schedules = <<>>]

\* Database.add_mining_schedule
add_mining_schedule(d, start_time, end_time, target_frequency, day_of_week) ==
    [d EXCEPT !.mining_schedules =
        Append(@, [start_time |-> start_time, end_time |-> end_time,
                   target_frequency |-> target_frequency,
                   day_of_week |-> day_of_week])]

\* MiningScheduler.get_schedule_for_hour: the row that applies, or None
RECURSIVE schedule_from(_, _, _, _)
schedule_from(schedules, i, time, day_of_week) ==
    IF i > Len(schedules) THEN None
    ELSE IF schedules[i].day_of_week # None
            /\ Val(schedules[i].day_of_week) # day_of_week
    THEN schedule_from(schedules, i + 1, time, day_of_week)
    ELSE IF time_in_range(time, schedules[i].start_time, schedules[i].end_time)
    THEN Some(schedules[i])
    ELSE schedule_from(schedules, i + 1, time, day_of_week)

get_schedule_for_hour(d, hour, day_of_week) ==
    schedule_from(d.mining_schedules, 1, <<hour, 0>>, day_of_week)

\* MiningScheduler.should_mine_now: (should_mine, target_frequency);
\* gates_open is the outcome of the price-floor and profitability gates
should_mine_now(d, current_time, current_day, gates_open) ==
    IF ~gates_open THEN [should_mine |-> FALSE, target_frequency |-> 0]
    ELSE IF d.mining_schedules = <<>>
    THEN [should_mine |-> TRUE, target_frequency |-> 0]
    ELSE LET hit == schedule_from(d.mining_schedules, 1, current_time, current_day)
         IN IF hit = None THEN [should_mine |-> TRUE, target_frequency |-> 0]
            ELSE [should_mine |-> Val(hit).target_frequency > 0,
                  target_frequency |-> Val(hit).target_frequency]

\* FleetManager._apply_mining_schedule: the device calls it issues on the
\* scheduler's decision
mining_schedule_calls(ms, decision) ==
    LET to_adjust == {ip \in DOMAIN ms :
                         is_esp_miner(ms[ip].type) /\ ms[ip].last_status # None}
        target == IF ~decision.should_mine THEN 100 ELSE decision.target_frequency
        call(ip) == <<NetCall(ip, "apply_settings",
                        [frequency |-> validate_frequency(ms[ip].type, target)])>>
    IN IF ~decision.should_mine \/ decision.target_frequency > 0
       THEN Concat([i \in 1..Len(InOrder(to_adjust)) |-> call(InOrder(to_adjust)[i])])
       ELSE <<>>

\* MiningScheduler.create_schedule_from_rates, the rows it adds from row i on
RECURSIVE schedule_rates(_, _, _, _, _, _)
schedule_rates(d, rates, i, max_rate_threshold, low_frequency, high_frequency) ==
    IF i > Len(rates) THEN d
    ELSE schedule_rates(
             add_mining_schedule(d, rates[i].start_time, rates[i].end_time,
                 IF rates[i].rate_per_kwh > max_rate_threshold
                 THEN low_frequency ELSE high_frequency,
                 rates[i].day_of_week),
             rates, i + 1, max_rate_threshold, low_frequency, high_frequency)

\* StrategyOptimizer.apply_strategy, the grouping loop from entry i on:
\* the blocks closed so far followed by the block still open
RECURSIVE group_blocks(_, _, _, _)
group_blocks(hourly_plan, i, current_block, blocks) ==
    IF i > Len(hourly_plan)
    THEN Append(blocks, [current_block EXCEPT
                            !.end_hour = hourly_plan[Len(hourly_plan)].hour])
    ELSE IF hourly_plan[i].frequency = current_block.frequency
    THEN group_blocks(hourly_plan, i + 1, current_block, blocks)
    ELSE group_blocks(hourly_plan, i + 1,
             [start_hour |-> hourly_plan[i].hour, end_hour |-> 0,
              frequency |-> hourly_plan[i].frequency],
             Append(blocks, [current_block EXCEPT
                                !.end_hour = hourly_plan[i - 1].hour]))

\* StrategyOptimizer.apply_strategy, the rows added from block i on
RECURSIVE add_blocks(_, _, _)
add_blocks(d, blocks, i) ==
    IF i > Len(blocks) THEN d
    ELSE LET end_hour == (blocks[i].end_hour + 1) % 24
         IN add_blocks(
                add_mining_schedule(d, <<blocks[i].start_hour, 0>>,
                    IF end_hour = 0 THEN <<23, 59>> ELSE <<end_hour, 0>>,
                    blocks[i].frequency, None),
                blocks, i + 1)

\* StrategyOptimizer.apply_strategy closing every block one hour early
apply_strategy_db_short_blocks(d, hourly_plan) ==
    LET blocks == group_blocks(hourly_plan, 2,
                      [start_hour |-> hourly_plan[1].hour, end_hour |-> 0,
                       frequency |-> hourly_plan[1].frequency], <<>>)
    IN add_blocks(clear_mining_schedules(d),
                  [i \in 1..Len(blocks) |->
                      [blocks[i] EXCEPT !.end_hour = Max(@ - 1, blocks[i].start_hour)]],
                  1)

\* StrategyOptimizer.apply_strategy
apply_strategy_db(d, hourly_plan) ==
    IF hourly_plan = <<>> THEN clear_mining_schedules(d)
    ELSE add_blocks(clear_mining_schedules(d),
                    group_blocks(hourly_plan, 2,
                        [start_hour |-> hourly_plan[1].hour, end_hour |-> 0,
                         frequency |-> hourly_plan[1].frequency], <<>>),
                    1)

(***************************************************************************)
(* Specification SpecSchedule: schedules are written from a plan or from   *)
(* the rates, and the monitoring loop applies the schedule.                *)
(***************************************************************************)
PlanFreqs == {0, 400, 525}

\* The part of the day an hour belongs to: midnight, morning, afternoon and
\* the last hour
Segment(hour) ==
    IF hour < 1 THEN 1 ELSE IF hour < 12 THEN 2 ELSE IF hour < 23 THEN 3 ELSE 4

\* The 24-entry hourly plans with one frequency per part of the day
Plans ==
    {[i \in 1..24 |-> [hour |-> i - 1, frequency |-> f[Segment(i - 1)]]] :
        f \in [1..4 -> PlanFreqs]}

\* The times of day at which the loop applies the schedule
ScheduleTimes == {<<0, 30>>, <<11, 59>>, <<12, 0>>, <<14, 0>>, <<23, 30>>}

ScheduleInit ==
    /\ now = 0
    /\ thermal_states = <<>>
    /\ global_auto_tune_enabled = TRUE
    /\ ret = NoRet
    /\ emergency_at = <<>>
    /\ AlertsIdle
    /\ FleetIdle
    /\ http = [handler |-> "none", request |-> <<>>, decision |-> <<>>]
    /\ monitoring_active = FALSE
    /\ monitoring_thread = None
    /\ loops = <<>>
    /\ threads = <<>>
    /\ lock = None
    /\ db = NoDb
    /\ btc_fetcher = BitcoinDataFetcher

ScheduleFrame == <<now, thermal_states, global_auto_tune_enabled, ret,
                   emergency_at, alertVars, miners, miner_alert_states,
                   overheat_recovery_states, monitor, last_poll, streak,
                   monitoring_active, monitoring_thread, loops, threads, lock,
                   btc_fetcher>>

\* apply_strategy (POST /api/strategies/apply)
apply_strategy(hourly_plan) ==
    /\ db' = apply_strategy_db(db, hourly_plan)
    /\ http' = [handler |-> "apply_strategy", request |-> hourly_plan,
                decision |-> <<>>]
    /\ UNCHANGED <<net_calls, ScheduleFrame>>

\* mining_schedule (POST /api/energy/schedule) with auto_from_rates
create_schedule_from_rates(max_rate_threshold, low_frequency, high_frequency) ==
    /\ db' = schedule_rates(clear_mining_schedules(db), db.energy_rates, 1,
                            max_rate_threshold, low_frequency, high_frequency)
    /\ http' = [handler |-> "create_schedule_from_rates",
                request |-> <<max_rate_threshold, low_frequency, high_frequency>>,
                decision |-> <<>>]
    /\ UNCHANGED <<net_calls, ScheduleFrame>>

\* The rate schedule is set to the example rates
schedule_set_rates ==
    /\ db' = set_tou_rates_db(db, <<Rate(<<0, 0>>, <<14, 0>>, 9),
                                    Rate(<<14, 0>>, <<19, 0>>, 17)>>).db
    /\ http' = [handler |-> "set_tou_rates", request |-> <<>>, decision |-> <<>>]
    /\ UNCHANGED <<net_calls, ScheduleFrame>>

\* A polled BitAxe joins the fleet
schedule_miner ==
    /\ miners' = Put(miners, RealIP,
                     Miner("BitAxe", FALSE,
                           Some(Status("online", Some(55), Some(485), Some(50)))))
    /\ http' = [handler |-> "discover_miners", request |-> <<>>, decision |-> <<>>]
    /\ UNCHANGED <<db, btc_fetcher, net_calls, now, thermal_states, global_auto_tune_enabled,
                   ret, emergency_at, alertVars, miner_alert_states,
                   overheat_recovery_states, monitor, last_poll, streak,
                   monitoring_active, monitoring_thread, loops, threads, lock>>

\* FleetManager._apply_mining_schedule at a time of day of a Monday
scheduled_mining(current_time, gates_open) ==
    LET decision == should_mine_now(db, current_time, "Monday", gates_open)
    IN /\ net_calls' = mining_schedule_calls(miners, decision)
       /\ http' = [handler |-> "apply_mining_schedule",
                   request |-> [current_time |-> current_time,
                                gates_open |-> gates_open],
                   decision |-> decision]
       /\ UNCHANGED <<db, ScheduleFrame>>

ScheduleNext ==
    \/ \E hourly_plan \in Plans : apply_strategy(hourly_plan)
    \/ \E high_frequency \in {0, 525} :
          create_schedule_from_rates(15, 0, high_frequency)
    \/ schedule_set_rates
    \/ schedule_miner
    \/ \E current_time \in ScheduleTimes, gates_open \in BOOLEAN :
          scheduled_mining(current_time, gates_open)

SpecSchedule == ScheduleInit /\ [][ScheduleNext]_vars

\* The schedule row that matches the time the loop last applied the
\* schedule at, or None
MatchedSchedule ==
    schedule_from(db.mining_schedules, 1, http.request.current_time, "Monday")

(***************************************************************************)
(* C22. When the loop applies the schedule with the gates open and the row *)
(* that matches the current time has target frequency 0, mining is not     *)
(* paused and no miner's frequency is changed.                              *)
(***************************************************************************)
C22_ZeroFrequencyMeansNoOverride ==
    (/\ http.handler = "apply_mining_schedule"
     /\ http.request.gates_open
     /\ MatchedSchedule # None
     /\ Val(MatchedSchedule).target_frequency = 0)
    => /\ http.decision.should_mine
       /\ net_calls = <<>>

\* The entries of a plan at which a maximal run of equal frequencies starts
RunStarts(hourly_plan) ==
    {i \in 1..Len(hourly_plan) :
        i = 1 \/ hourly_plan[i].frequency # hourly_plan[i - 1].frequency}

\* The last entry of the maximal run that starts at entry i
RunEnd(hourly_plan, i) ==
    CHOOSE j \in i..Len(hourly_plan) :
        /\ \A k \in i..j : hourly_plan[k].frequency = hourly_plan[i].frequency
        /\ j = Len(hourly_plan)
           \/ hourly_plan[j + 1].frequency # hourly_plan[i].frequency

(***************************************************************************)
(* C23. After a 24-hour plan is applied the mining schedule holds exactly  *)
(* one row per maximal run of consecutive hours of equal frequency, each   *)
(* from the run's first hour to the end of its last hour at the run's      *)
(* frequency, and the row that applies to any hour carries the plan's      *)
(* frequency for that hour.                                                *)
(***************************************************************************)
C23_ScheduleMatchesPlan ==
    http.handler = "apply_strategy" =>
        LET hourly_plan == http.request
            rows == db.mining_schedules
        IN /\ Len(rows) = Cardinality(RunStarts(hourly_plan))
           /\ \A i \in RunStarts(hourly_plan) :
                \E r \in 1..Len(rows) :
                    /\ rows[r].start_time = <<hourly_plan[i].hour, 0>>
                    /\ Minutes(rows[r].end_time) \in
                           {60 * hourly_plan[RunEnd(hourly_plan, i)].hour + 59,
                            60 * hourly_plan[RunEnd(hourly_plan, i)].hour + 60}
                    /\ rows[r].target_frequency = hourly_plan[i].frequency
           /\ \A i \in 1..Len(hourly_plan) :
                LET hit == get_schedule_for_hour(db, hourly_plan[i].hour, "Monday")
                IN /\ hit # None
                   /\ Val(hit).target_frequency = hourly_plan[i].frequency

\* A plan of four runs, the last one the hour 23 alone, was applied
C23_Witness ==
    /\ http.handler = "apply_strategy"
    /\ Cardinality(RunStarts(http.request)) = 4
    /\ Len(db.mining_schedules) = 4
    /\ db.mining_schedules[4].start_time = <<23, 0>>
    /\ db.mining_schedules[4].end_time = <<23, 59>>

\* A plan of one frequency for the whole day was applied
C23_WitnessWholeDay ==
    /\ http.handler = "apply_strategy"
    /\ Cardinality(RunStarts(http.request)) = 1
    /\ db.mining_schedules =
           <<[start_time |-> <<0, 0>>, end_time |-> <<23, 59>>,
              target_frequency |-> http.request[1].frequency,
              day_of_week |-> None]>>

(***************************************************************************)
(* energy.py: BitcoinDataFetcher.  A response is the quantity as a number  *)
(* ("value"), a body whose quantity is null or not a number ("null"), a    *)
(* body without the quantity ("absent"), or a failed request ("error").    *)
(***************************************************************************)
\* BitcoinDataFetcher.cache_duration: 300 s
cache_duration == 10

Response(kind, value) == [kind |-> kind, value |-> value]

\* "if self.<q>_cache and self.<q>_cache_time" and the age test
cache_is_fresh(c, t) ==
    /\ c.cache # None
    /\ Val(c.cache) # 0
    /\ c.cache_time # None
    /\ t - Val(c.cache_time) < cache_duration

\* The try block of get_btc_price: data['bitcoin']['usd'] is cached as it
\* is, then formatted for the log
fetch_btc_price(c, response, t) ==
    IF response.kind \in {"error", "absent"}
    THEN [cache |-> c, result |-> c.cache]
    ELSE LET price == IF response.kind = "value" THEN Some(response.value) ELSE None
             cached == [c EXCEPT !.cache = price, !.cache_time = Some(t)]
         IN IF price = None
            THEN [cache |-> cached, result |-> cached.cache]
            ELSE [cache |-> [cached EXCEPT !.fetched = Some(response.value)],
                  result |-> price]

\* The try block of get_network_difficulty and of get_block_height: the
\* text is converted by float() or int() before it is cached
fetch_text(c, response, t) ==
    IF response.kind # "value"
    THEN [cache |-> c, result |-> c.cache]
    ELSE [cache |-> [c EXCEPT !.cache = Some(response.value),
                              !.cache_time = Some(t),
                              !.fetched = Some(response.value)],
          result |-> Some(response.value)]

\* get_btc_price, get_network_difficulty, get_block_height: the cache
\* entry after the call, what is returned and whether the network was used
get_quantity(quantity, c, response, t) ==
    IF cache_is_fresh(c, t)
    THEN [cache |-> c, result |-> c.cache, net_call |-> FALSE]
    ELSE LET r == IF quantity = "btc_price" THEN fetch_btc_price(c, response, t)
                  ELSE fetch_text(c, response, t)
         IN [cache |-> r.cache, result |-> r.result, net_call |-> TRUE]

(***************************************************************************)
(* Specification SpecFetch: the three quantities are asked for while time  *)
(* passes and the remote services answer in every way.                     *)
(***************************************************************************)
MaxFetchTime == 10
FetchStep == 5

Quantities == {"btc_price", "difficulty", "block_height"}

Responses ==
    {Response("value", 100), Response("value", 200), Response("null", 0),
     Response("absent", 0), Response("error", 0)}

NoResponse == Response("none", 0)

FetchInit ==
    /\ now = 0
    /\ thermal_states = <<>>
    /\ global_auto_tune_enabled = TRUE
    /\ ret = NoRet
    /\ emergency_at = <<>>
    /\ AlertsIdle
    /\ FleetIdle
    /\ http = [handler |-> "none", response |-> NoResponse, before |-> NoCache,
               net_call |-> FALSE, result |-> None]
    /\ monitoring_active = FALSE
    /\ monitoring_thread = None
    /\ loops = <<>>
    /\ threads = <<>>
    /\ lock = None
    /\ db = NoDb
    /\ btc_fetcher = BitcoinDataFetcher

FetchFrame == <<thermalVars, alertVars, fleetVars, monitoring_active,
                monitoring_thread, loops, threads, lock, db>>

\* One call of get_btc_price, get_network_difficulty or get_block_height
get_bitcoin_data(quantity, response) ==
    LET r == get_quantity(quantity, btc_fetcher[quantity], response, now)
    IN \* a call served from the cache sends no request, so there is one
       \* such call whatever the services would have answered
       /\ r.net_call \/ response = Response("error", 0)
       /\ btc_fetcher' = [btc_fetcher EXCEPT ![quantity] = r.cache]
       /\ http' = [handler |-> quantity,
                   response |-> IF r.net_call THEN response ELSE NoResponse,
                   before |-> btc_fetcher[quantity],
                   net_call |-> r.net_call, result |-> r.result]
       /\ UNCHANGED <<now, FetchFrame>>

\* Two and a half minutes pass
fetch_tick ==
    /\ now < MaxFetchTime
    /\ now' = now + FetchStep
    /\ http' = [handler |-> "none", response |-> NoResponse, before |-> NoCache,
                net_call |-> FALSE, result |-> None]
    /\ UNCHANGED <<btc_fetcher, FetchFrame>>

FetchNext ==
    \/ \E quantity \in Quantities, response \in Responses :
          get_bitcoin_data(quantity, response)
    \/ fetch_tick

SpecFetch == FetchInit /\ [][FetchNext]_vars

(***************************************************************************)
(* C25. For each of the three quantities: within five minutes of a         *)
(* successful fetch the fetched value is returned without a network call,  *)
(* and a call whose fetch fails or gets a malformed response returns the   *)
(* value fetched last.                                                     *)
(***************************************************************************)
C25_CachedAndFailSafe ==
    http.handler \in Quantities =>
        /\ (/\ http.before.fetched # None
            /\ http.before.cache_time # None
            /\ http.before.cache = http.before.fetched
            /\ now - Val(http.before.cache_time) < cache_duration)
           => ~http.net_call /\ http.result = http.before.fetched
        /\ (http.net_call /\ http.response.kind # "value")
           => http.result = http.before.fetched

(***************************************************************************)
(* app.py: a worker of update_all_miners whose body raises.  The except    *)
(* clause of update_miner logs the error and the worker ends like any      *)
(* other; the executor waits for every worker of the snapshot.             *)
(***************************************************************************)
\* The exception leaves update_all_miners and ends the cycle
worker_raised_aborts(m, ip) == [phase |-> "sleep", pending |-> {}]

\* The monitoring loop after the worker of ip raised and its except
\* clause ran
worker_raised(m, ip) ==
    IF m.pending = {ip} THEN [phase |-> "sleep", pending |-> {}]
    ELSE [m EXCEPT !.pending = @ \ {ip}]

\* update_miner for a miner whose miner.update_status() raises
update_miner_raises(ip) ==
    /\ monitor.phase = "polling"
    /\ ip \in monitor.pending
    /\ ~miners[ip].is_mock
    /\ net_calls' = <<NetCall(ip, "get_status", None)>>
    /\ ret' = NoRet
    /\ last_poll' = [ip |-> ip, status |-> "raised", restart |-> None]
    /\ streak' = [streak EXCEPT ![ip] = NextStreak(@, "raised", now)]
    /\ monitor' = worker_raised(monitor, ip)
    /\ UNCHANGED <<serverVars, now, thermal_states, global_auto_tune_enabled,
                   emergency_at, alertVars, miners, miner_alert_states,
                   overheat_recovery_states>>

(***************************************************************************)
(* Specification SpecCycle: the monitoring loop polls a fleet of two       *)
(* miners that answer, do not answer, or make their worker raise.          *)
(***************************************************************************)
MaxCycleTime == 2
MaxCycleAlerts == 3

CycleIPs == {RealIP, SecondIP}

CycleStatuses ==
    {Status("online", Some(55), Some(485), Some(50)),
     Status("offline", None, None, None)}

CycleInit ==
    /\ now = 0
    /\ thermal_states = [ip \in CycleIPs |-> ThermalState("BitAxe")]
    /\ global_auto_tune_enabled = TRUE
    /\ ret = NoRet
    /\ emergency_at = [ip \in CycleIPs |-> None]
    /\ alert_mgr = AlertManager
    /\ clock_origin = 0
    /\ miners = [ip \in CycleIPs |-> Miner("BitAxe", FALSE, None)]
    /\ miner_alert_states = <<>>
    /\ overheat_recovery_states = {}
    /\ monitor = [phase |-> "schedule", pending |-> {}]
    /\ net_calls = <<>>
    /\ last_poll = NoPoll
    /\ streak = [ip \in CycleIPs |-> NoStreak]
    /\ ServerIdle

CycleNext ==
    \/ apply_mining_schedule([should_mine |-> TRUE, target_frequency |-> 0])
    \/ update_all_miners
    \/ \E ip \in CycleIPs, device \in CycleStatuses :
          update_miner(ip, device, TRUE, MaxCycleAlerts)
    \/ \E ip \in CycleIPs : update_miner_raises(ip)
    \/ \E d \in PollSleeps : monitor_sleep(d, MaxCycleTime)

SpecCycle == CycleInit /\ [][CycleNext]_vars

(***************************************************************************)
(* C26. A polling cycle starts with every miner of the registry pending;   *)
(* each worker that ends, whether it polled its miner or raised, takes     *)
(* only its own miner off the pending set; the cycle goes to its sleep     *)
(* only when the last pending miner's worker has ended, and the sleep is   *)
(* followed by the next cycle.                                             *)
(***************************************************************************)
C26_FailureDoesNotAbortCycle ==
    [][/\ (monitor.phase = "update" /\ monitor' # monitor)
          => monitor' = [phase |-> "polling", pending |-> DOMAIN miners]
       /\ (monitor.phase = "polling" /\ monitor' # monitor)
          => /\ last_poll'.ip \in monitor.pending
             /\ monitor'.pending = monitor.pending \ {last_poll'.ip}
             /\ monitor'.phase = IF monitor'.pending = {} THEN "sleep"
                                 ELSE "polling"
       /\ (monitor.phase = "sleep" /\ monitor' # monitor)
          => monitor'.phase = "schedule"]_vars

\* The worker of one miner raised and the other miner is still to be polled
C26_Witness ==
    /\ last_poll # NoPoll
    /\ last_poll.status = "raised"
    /\ monitor.phase = "polling"
    /\ monitor.pending # {}

\* In the cycle in which the worker of the first miner raised the second
\* miner was polled and answered
C26_WitnessOtherPolled ==
    /\ last_poll # NoPoll
    /\ last_poll.ip = SecondIP
    /\ last_poll.status = "online"
    /\ streak[RealIP].before = "none"
    /\ streak[RealIP].start = Some(now)
    /\ net_calls # <<>>

\* A cycle starts after one in which a worker raised
C26_WitnessNextCycle ==
    /\ monitor.phase = "schedule"
    /\ streak[RealIP].len = 1
    /\ streak[RealIP].start # None
    /\ Val(streak[RealIP].start) < now

(***************************************************************************)
(* app.py: the sleep of monitor_loop, lines 690-694.  The loop sleeps one  *)
(* second at a time and tests monitoring_active before every second.       *)
(***************************************************************************)
\* The for statement is at the top of an iteration: the range is used up
\* (expired), or the flag is tested and the loop breaks or sleeps a second
loop_sleep_check(i, expired) ==
    /\ i \in DOMAIN loops
    /\ loops[i] = "sleep"
    /\ loops' = [loops EXCEPT ![i] =
                    IF expired \/ ~monitoring_active THEN "check" ELSE "sleeping"]
    /\ net_calls' = <<>>
    /\ UNCHANGED <<ServerFrame, http, monitoring_active, monitoring_thread, threads, lock>>

\* time.sleep(1) returns
loop_sleep_second(i) ==
    /\ i \in DOMAIN loops
    /\ loops[i] = "sleeping"
    /\ loops' = [loops EXCEPT ![i] = "sleep"]
    /\ net_calls' = <<>>
    /\ UNCHANGED <<ServerFrame, http, monitoring_active, monitoring_thread, threads, lock>>

\* stop_monitoring, line 704: self.monitoring_active = False; the thread
\* notes which loops are in their sleep at that moment
stop_monitoring_asleep(t) ==
    /\ threads[t].pc = "serving"
    /\ monitoring_active' = FALSE
    /\ threads' = [threads EXCEPT ![t] =
                      [pc |-> "join", op |-> "stop_monitoring", ip |-> "",
                       asleep |-> {i \in DOMAIN loops :
                                      loops[i] \in {"sleep", "sleeping"}}]]
    /\ net_calls' = <<>>
    /\ UNCHANGED <<ServerFrame, http, monitoring_thread, loops, lock>>

(***************************************************************************)
(* Specification SpecStop: one server thread handles requests, the main    *)
(* thread stops the monitoring when the server ends, and every             *)
(* monitor_loop thread runs its cycles and its sleep second by second.     *)
(***************************************************************************)
StopThread == "request1"

StopInit ==
    /\ now = 0
    /\ thermal_states = (RealIP :> ThermalState("BitAxe"))
    /\ global_auto_tune_enabled = TRUE
    /\ ret = NoRet
    /\ emergency_at = (RealIP :> None)
    /\ AlertsIdle
    /\ miners = (RealIP :> Miner("BitAxe", FALSE,
                                 Some(Status("online", Some(55), Some(485), Some(50)))))
    /\ miner_alert_states = <<>>
    /\ overheat_recovery_states = {}
    /\ monitor = [phase |-> "stopped", pending |-> {}]
    /\ net_calls = <<>>
    /\ last_poll = NoPoll
    /\ streak = (RealIP :> NoStreak)
    /\ http = NoRequest
    /\ monitoring_active = FALSE
    /\ monitoring_thread = None
    /\ loops = <<>>
    /\ threads = [t \in {StopThread, MainThread} |->
                     IF t = MainThread
                     THEN [pc |-> "serving", op |-> "app.run", ip |-> ""]
                     ELSE Idle]
    /\ lock = None
    /\ db = NoDb
    /\ btc_fetcher = BitcoinDataFetcher

StopNext ==
    \/ \E ip \in RequestIPs : request(StopThread, "restart_miner", ip)
    \/ csrf_protect(StopThread)
    \/ start_monitoring_check(StopThread)
    \/ start_monitoring_set(StopThread)
    \/ start_monitoring_spawn(StopThread)
    \/ handler_lock(StopThread)
    \/ handler_locked(StopThread)
    \/ handler_return(StopThread)
    \/ stop_monitoring_asleep(MainThread)
    \/ stop_monitoring_join(MainThread)
    \/ \E i \in 1..Len(LoopNames) : loop_check(i)
    \/ \E i \in 1..Len(LoopNames), d \in ScheduleDecisions : loop_schedule(i, d)
    \/ \E i \in 1..Len(LoopNames) : loop_update(i)
    \/ \E i \in 1..Len(LoopNames) : loop_polled(i)
    \/ \E i \in 1..Len(LoopNames), expired \in BOOLEAN : loop_sleep_check(i, expired)
    \/ \E i \in 1..Len(LoopNames) : loop_sleep_second(i)

SpecStop == StopInit /\ [][StopNext]_vars

\* The loops that were in their sleep when stop_monitoring was called
StoppedAsleep ==
    IF threads[MainThread].pc \in {"join", "stopped"}
    THEN threads[MainThread].asleep ELSE {}

\* The places of monitor_loop inside a cycle
InCycle == {"schedule", "applying", "polling"}

(***************************************************************************)
(* C27. A loop that is in its sleep when stop_monitoring is called leaves  *)
(* the sleep at its next one-second test, starts no further cycle and      *)
(* ends.                                                                   *)
(***************************************************************************)
C27_StopHonoredDuringSleep ==
    [][\A i \in StoppedAsleep :
          /\ loops[i] = "sleep" => loops'[i] \in {"sleep", "check"}
          /\ loops[i] = "check" => loops'[i] \in {"check", "exited"}
          /\ loops'[i] \notin InCycle]_vars

(***************************************************************************)
(* config.py: get_thermal_profile_key on any type string.  A type string   *)
(* is the sequence of its words; the substring tests of the function are   *)
(* made on the upper-cased string.                                         *)
(***************************************************************************)
\* The keys of thermal.MINER_PROFILES
PROFILE_KEYS ==
    {"BitAxe", "BitAxeMax", "BitAxeUltra", "BitAxeSupra", "BitAxeGamma",
     "NerdAxe", "BitAxeHex", "NerdQAxe", "NerdQAxePP", "NerdOctaxe",
     "LuckyMiner", "Antminer", "Whatsminer", "Avalon", "Unknown"}

\* The substrings the function looks for that occur in word.upper()
MarkersIn(word) ==
    CASE word = "BitAxe" -> {"BITAXE"}
      [] word = "Max" -> {"MAX"}
      [] word = "Ultra" -> {"ULTRA"}
      [] word = "Supra" -> {"SUPRA"}
      [] word = "Gamma" -> {"GAMMA"}
      [] word = "Hex" -> {"HEX"}
      [] word = "bm1370" -> {"BM1370"}
      [] word = "NerdAxe" -> {"NERDAXE"}
      [] word = "NerdQAxe" -> {"NERDQAXE", "QAXE"}
      [] word = "NerdQAxe++" -> {"NERDQAXE++", "QAXE++", "NERDQAXE", "QAXE"}
      [] word = "NerdOctaxe" -> {"NERDOCTAXE", "OCTAXE"}
      [] word = "LuckyMiner" -> {"LUCKYMINER", "LUCKY"}
      [] word = "Antminer" -> {"ANTMINER"}
      [] word = "Whatsminer" -> {"WHATSMINER"}
      [] word = "Avalon" -> {"AVALON"}
      [] word = "Nano3s" -> {"NANO3S"}
      [] OTHER -> {}

\* marker in miner_type.upper(); "NANO 3S" runs over two words
In(marker, miner_type) ==
    \/ \E i \in 1..Len(miner_type) : marker \in MarkersIn(miner_type[i])
    \/ /\ marker = "NANO 3S"
       /\ \E i \in 1..(Len(miner_type) - 1) :
             miner_type[i] = "Nano" /\ miner_type[i + 1] = "3s"

\* config.get_thermal_profile_key
thermal_profile_key(miner_type) ==
    IF In("NERDOCTAXE", miner_type) \/ In("OCTAXE", miner_type) THEN "NerdOctaxe"
    ELSE IF In("NERDQAXE++", miner_type) \/ In("QAXE++", miner_type) THEN "NerdQAxePP"
    ELSE IF In("NERDQAXE", miner_type) \/ In("QAXE", miner_type) THEN "NerdQAxe"
    ELSE IF In("NERDAXE", miner_type) THEN "NerdAxe"
    ELSE IF In("HEX", miner_type) THEN "BitAxeHex"
    ELSE IF In("GAMMA", miner_type) \/ In("BM1370", miner_type) THEN "BitAxeGamma"
    ELSE IF In("SUPRA", miner_type) \/ In("BM1368", miner_type) THEN "BitAxeSupra"
    ELSE IF In("ULTRA", miner_type) \/ In("BM1366", miner_type) THEN "BitAxeUltra"
    ELSE IF In("MAX", miner_type) \/ In("BM1397", miner_type) THEN "BitAxeMax"
    ELSE IF In("BITAXE", miner_type) THEN "BitAxe"
    ELSE IF In("LUCKYMINER", miner_type) \/ In("LUCKY", miner_type) THEN "LuckyMiner"
    ELSE IF In("ANTMINER", miner_type) THEN "Antminer"
    ELSE IF In("WHATSMINER", miner_type) THEN "Whatsminer"
    ELSE IF In("NANO3S", miner_type) \/ In("NANO 3S", miner_type) THEN "AvalonNano3s"
    ELSE IF In("AVALON", miner_type) THEN "Avalon"
    ELSE "Unknown"

(***************************************************************************)
(* Specification SpecProfile: the profile key of type strings of one or    *)
(* two words is looked up.                                                 *)
(***************************************************************************)
TypeWords ==
    {"BitAxe", "Max", "Ultra", "Supra", "Gamma", "Hex", "bm1370", "NerdAxe",
     "NerdQAxe", "NerdQAxe++", "NerdOctaxe", "LuckyMiner", "Antminer",
     "Whatsminer", "Avalon", "Nano3s", "Nano", "3s", "S19", "Generic"}

TypeStrings == UNION {[1..n -> TypeWords] : n \in 0..2}

ProfileInit ==
    /\ now = 0
    /\ thermal_states = <<>>
    /\ global_auto_tune_enabled = TRUE
    /\ ret = NoRet
    /\ emergency_at = <<>>
    /\ AlertsIdle
    /\ FleetIdle
    /\ http = [handler |-> "none", request |-> <<>>, result |-> ""]
    /\ monitoring_active = FALSE
    /\ monitoring_thread = None
    /\ loops = <<>>
    /\ threads = <<>>
    /\ lock = None
    /\ db = NoDb
    /\ btc_fetcher = BitcoinDataFetcher

\* One call of config.get_thermal_profile_key
profile_key_lookup(miner_type) ==
    /\ http' = [handler |-> "get_thermal_profile_key", request |-> miner_type,
                result |-> thermal_profile_key(miner_type)]
    /\ UNCHANGED <<now, thermalVars, alertVars, fleetVars, monitoring_active,
                   monitoring_thread, loops, threads, lock, db, btc_fetcher>>

ProfileNext == \E miner_type \in TypeStrings : profile_key_lookup(miner_type)

SpecProfile == ProfileInit /\ [][ProfileNext]_vars

\* The substrings get_thermal_profile_key tests for
ProfileMarkers ==
    {"NERDOCTAXE", "OCTAXE", "NERDQAXE++", "QAXE++", "NERDQAXE", "QAXE",
     "NERDAXE", "HEX", "GAMMA", "BM1370", "SUPRA", "BM1368", "ULTRA", "BM1366",
     "MAX", "BM1397", "BITAXE", "LUCKYMINER", "LUCKY", "ANTMINER",
     "WHATSMINER", "NANO3S", "NANO 3S", "AVALON"}

(***************************************************************************)
(* C28. For every type string the profile key returned is a key of the     *)
(* profile table, and it is Unknown when the string contains none of the   *)
(* substrings tested for.                                                  *)
(***************************************************************************)
C28_ProfileKeyInTable ==
    http.handler = "get_thermal_profile_key" =>
        /\ http.result \in PROFILE_KEYS
        /\ (\A marker \in ProfileMarkers : ~In(marker, http.request))
           => http.result = "Unknown"

(***************************************************************************)
(* miners/cgminer.py: CGMinerAPIHandler.get_pools.  An entry of the POOLS  *)
(* list is a dictionary with a Status and, possibly, a Stratum Active      *)
(* flag.                                                                   *)
(***************************************************************************)
\* pool.get('Stratum Active', False)
stratum_active(pool) ==
    IF "Stratum Active" \in DOMAIN pool THEN pool["Stratum Active"] ELSE FALSE

\* The loop of get_pools over the entries from i on: active_pool after it
RECURSIVE active_pool_from(_, _, _)
active_pool_from(pool_list, i, active_pool) ==
    IF i > Len(pool_list) THEN active_pool
    ELSE active_pool_from(pool_list, i + 1,
             IF (stratum_active(pool_list[i]) \/ pool_list[i]["Status"] = "Alive")
                /\ stratum_active(pool_list[i])
             THEN i - 1 ELSE active_pool)

\* CGMinerAPIHandler.get_pools on the answer to the pools command
get_pools_result(result) ==
    IF "error" \in DOMAIN result THEN None
    ELSE LET pool_list == IF "POOLS" \in DOMAIN result THEN result["POOLS"] ELSE <<>>
         IN Some([pools |-> [i \in 1..Len(pool_list) |->
                                [url |-> pool_list[i]["URL"], password |-> "x"]],
                  active_pool |-> active_pool_from(pool_list, 1, 0)])

(***************************************************************************)
(* Specification SpecPools: the pools of a CGMiner device are read.        *)
(***************************************************************************)
MaxPools == 3

\* The entries a device may list
PoolEntries ==
    {("URL" :> "pool") @@ ("Status" :> st) : st \in {"Alive", "Dead"}}
    \cup {("URL" :> "pool") @@ ("Status" :> st) @@ ("Stratum Active" :> sa) :
             st \in {"Alive", "Dead"}, sa \in BOOLEAN}

\* The answers to the pools command
PoolAnswers ==
    {("error" :> "timeout"), ("STATUS" :> "S")}
    \cup {("POOLS" :> pool_list) :
             pool_list \in UNION {[1..n -> PoolEntries] : n \in 0..MaxPools}}

PoolsInit ==
    /\ now = 0
    /\ thermal_states = <<>>
    /\ global_auto_tune_enabled = TRUE
    /\ ret = NoRet
    /\ emergency_at = <<>>
    /\ AlertsIdle
    /\ FleetIdle
    /\ http = [handler |-> "none", request |-> <<>>, result |-> None]
    /\ monitoring_active = FALSE
    /\ monitoring_thread = None
    /\ loops = <<>>
    /\ threads = <<>>
    /\ lock = None
    /\ db = NoDb
    /\ btc_fetcher = BitcoinDataFetcher

\* One call of get_pools; result is what the device answers
get_pools(result) ==
    /\ http' = [handler |-> "get_pools", request |-> result,
                result |-> get_pools_result(result)]
    /\ net_calls' = <<NetCall(RealIP, "pools", None)>>
    /\ UNCHANGED <<now, thermalVars, alertVars, miners, miner_alert_states,
                   overheat_recovery_states, monitor, last_poll, streak,
                   monitoring_active, monitoring_thread, loops, threads, lock,
                   db, btc_fetcher>>

PoolsNext == \E result \in PoolAnswers : get_pools(result)

SpecPools == PoolsInit /\ [][PoolsNext]_vars

\* The positions of the listed pools that are flagged stratum-active
ActivePositions ==
    {i \in 1..Len(http.request["POOLS"]) : stratum_active(http.request["POOLS"][i])}

(***************************************************************************)
(* C29. When a pool read lists a pool flagged stratum-active, the active   *)
(* index it reports is the index of the first such pool.                   *)
(***************************************************************************)
C29_ActiveIsFirstStratumActive ==
    (/\ http.handler = "get_pools"
     /\ "POOLS" \in DOMAIN http.request
     /\ ActivePositions # {})
    => \E i \in ActivePositions :
          /\ \A j \in ActivePositions : i <= j
          /\ Val(http.result).active_pool = i - 1

(***************************************************************************)
(* pool_manager.py: PoolManager.calculate_sats_from_shares, the confidence *)
(* and method entries of its result.  A fee is in tenths of a percent.     *)
(***************************************************************************)
\* pool_type.upper() on the payout types of the model
Upper(pool_type) ==
    CASE pool_type = "fpps" -> "FPPS"
      [] pool_type = "solo" -> "SOLO"
      [] pool_type = "Pplns" -> "PPLNS"
      [] OTHER -> pool_type

\* "pool_type and ...": the payout type is neither None nor empty
Given(pool_type) == pool_type # None /\ Val(pool_type) # ""

\* calculate_sats_from_shares with the defaulted fee raising the
\* confidence to at least 70
calculate_sats_from_shares_floor(shares_accepted, pool_difficulty, pool_fee_percent, pool_type) ==
    IF shares_accepted <= 0 THEN [confidence |-> 100, method |-> "zero_shares"]
    ELSE LET known == IF pool_difficulty = None THEN 60 ELSE 90
             confidence == IF pool_fee_percent = None THEN Max(known, 70) ELSE known
             type == IF Given(pool_type) THEN Upper(Val(pool_type)) ELSE ""
         IN IF type = "SOLO" THEN [confidence |-> 0, method |-> "solo_mining"]
            ELSE IF type \in {"PPLNS", "PROP"}
            THEN [confidence |-> 50, method |-> "pplns_expected_value"]
            ELSE IF type \in {"FPPS+", "FPPS"}
            THEN [confidence |-> confidence, method |-> "fpps_calculation"]
            ELSE IF type = "PPS"
            THEN [confidence |-> confidence, method |-> "pps_calculation"]
            ELSE IF type = "TIDES"
            THEN [confidence |-> confidence, method |-> "tides_calculation"]
            ELSE [confidence |-> Max(50, confidence - 20),
                  method |-> "generic_calculation"]

\* PoolManager.calculate_sats_from_shares
calculate_sats_from_shares(shares_accepted, pool_difficulty, pool_fee_percent, pool_type) ==
    IF shares_accepted <= 0 THEN [confidence |-> 100, method |-> "zero_shares"]
    ELSE LET known == IF pool_difficulty = None THEN 60 ELSE 90
             confidence == IF pool_fee_percent = None THEN Min(known, 70) ELSE known
             type == IF Given(pool_type) THEN Upper(Val(pool_type)) ELSE ""
         IN IF type = "SOLO" THEN [confidence |-> 0, method |-> "solo_mining"]
            ELSE IF type \in {"PPLNS", "PROP"}
            THEN [confidence |-> 50, method |-> "pplns_expected_value"]
            ELSE IF type \in {"FPPS+", "FPPS"}
            THEN [confidence |-> confidence, method |-> "fpps_calculation"]
            ELSE IF type = "PPS"
            THEN [confidence |-> confidence, method |-> "pps_calculation"]
            ELSE IF type = "TIDES"
            THEN [confidence |-> confidence, method |-> "tides_calculation"]
            ELSE [confidence |-> Max(50, confidence - 20),
                  method |-> "generic_calculation"]

(***************************************************************************)
(* Specification SpecSats: earnings are estimated for share counts, pool   *)
(* difficulties, fees and payout types of every kind.                      *)
(***************************************************************************)
SatsShares == {0, 1, 100}
SatsDifficulties == {None, Some(5000)}
SatsFees == {None, Some(0), Some(25)}
SatsTypes ==
    {None} \cup {Some(t) : t \in {"", "FPPS", "FPPS+", "fpps", "PPS", "TIDES",
                                  "PPLNS", "Pplns", "PROP", "SOLO", "solo",
                                  "SCORE"}}

SatsInit ==
    /\ now = 0
    /\ thermal_states = <<>>
    /\ global_auto_tune_enabled = TRUE
    /\ ret = NoRet
    /\ emergency_at = <<>>
    /\ AlertsIdle
    /\ FleetIdle
    /\ http = [handler |-> "none", request |-> <<>>, result |-> <<>>]
    /\ monitoring_active = FALSE
    /\ monitoring_thread = None
    /\ loops = <<>>
    /\ threads = <<>>
    /\ lock = None
    /\ db = NoDb
    /\ btc_fetcher = BitcoinDataFetcher

\* One call of calculate_sats_from_shares
estimate_sats(shares_accepted, pool_difficulty, pool_fee_percent, pool_type) ==
    /\ http' = [handler |-> "calculate_sats_from_shares",
                request |-> [shares_accepted |-> shares_accepted,
                             pool_difficulty |-> pool_difficulty,
                             pool_fee_percent |-> pool_fee_percent,
                             pool_type |-> pool_type],
                result |-> calculate_sats_from_shares(shares_accepted,
                               pool_difficulty, pool_fee_percent, pool_type)]
    /\ UNCHANGED <<now, thermalVars, alertVars, fleetVars, monitoring_active,
                   monitoring_thread, loops, threads, lock, db, btc_fetcher>>

SatsNext ==
    \E shares_accepted \in SatsShares, pool_difficulty \in SatsDifficulties,
       pool_fee_percent \in SatsFees, pool_type \in SatsTypes :
        estimate_sats(shares_accepted, pool_difficulty, pool_fee_percent, pool_type)

SpecSats == SatsInit /\ [][SatsNext]_vars

\* The payout type of the last estimate, upper-cased, "" if there is none
EstimatedType ==
    IF Given(http.request.pool_type) THEN Upper(Val(http.request.pool_type)) ELSE ""

\* The last estimate is one for a positive share count and a payout type
\* that is per-share (FPPS, FPPS+, PPS, TIDES), respectively unknown
PerShareEstimate ==
    /\ http.handler = "calculate_sats_from_shares"
    /\ http.request.shares_accepted > 0
    /\ EstimatedType \in {"FPPS", "FPPS+", "PPS", "TIDES"}

UnknownTypeEstimate ==
    /\ http.handler = "calculate_sats_from_shares"
    /\ http.request.shares_accepted > 0
    /\ EstimatedType \notin {"FPPS", "FPPS+", "PPS", "TIDES", "PPLNS", "PROP", "SOLO"}

(***************************************************************************)
(* C30 as stated. For per-share and unknown payout types the confidence is *)
(* 90 with a supplied pool difficulty and 60 without, and never less than  *)
(* 70 when the fee was defaulted.                                          *)
(***************************************************************************)
C30_ConfidenceWithFloor ==
    PerShareEstimate \/ UnknownTypeEstimate =>
        LET known == IF http.request.pool_difficulty = None THEN 60 ELSE 90
        IN http.result.confidence =
               IF http.request.pool_fee_percent = None /\ known < 70 THEN 70
               ELSE known

(***************************************************************************)
(* C30. For per-share payout types the confidence is 90 with a supplied    *)
(* pool difficulty and 60 without, and at most 70 when the fee was         *)
(* defaulted; for unknown payout types it is 20 less, but not below 50.    *)
(***************************************************************************)
C30_ConfidenceWithCap ==
    LET supplied == http.request.pool_difficulty # None
        defaulted == http.request.pool_fee_percent = None
    IN /\ PerShareEstimate =>
             http.result.confidence =
                 IF supplied THEN (IF defaulted THEN 70 ELSE 90) ELSE 60
       /\ UnknownTypeEstimate =>
             http.result.confidence =
                 IF supplied /\ ~defaulted THEN 70 ELSE 50

\* A per-share estimate with a supplied difficulty and a defaulted fee
\* reports 70
C30_Witness ==
    /\ PerShareEstimate
    /\ http.request.pool_difficulty # None
    /\ http.request.pool_fee_percent = None
    /\ http.result.confidence = 70

\* An estimate for an unknown payout type with everything supplied
C30_WitnessUnknownType ==
    /\ UnknownTypeEstimate
    /\ http.request.pool_difficulty # None
    /\ http.request.pool_fee_percent # None
    /\ http.result.confidence = 70

(***************************************************************************)
(* Specification SpecForce: one registered miner whose frequency the       *)
(* operator forces and resets and whose auto-tune is switched on and off,  *)
(* while readings are fed, the control is evaluated and time passes by     *)
(* one cooldown.                                                           *)
(***************************************************************************)
MaxForceTime == 20
ForceSteps == {cooldown_duration}
ForceFans == {None, Some(100)}

\* Readings above the dead band and at the critical threshold
ForceTemps(p) == {p.optimal_temp + p.temp_hysteresis + 1, p.critical_temp}

ForceInit ==
    /\ now = 0
    /\ thermal_states = (ThermalIP :> ThermalState("BitAxe"))
    /\ global_auto_tune_enabled = TRUE
    /\ ret = NoRet
    /\ emergency_at = (ThermalIP :> None)
    /\ AlertsIdle
    /\ FleetIdle
    /\ ServerIdle

ForceNext ==
    \/ \E d \in ForceSteps : Pass(d, MaxForceTime)
    \/ \E t \in ForceTemps(thermal_states[ThermalIP].profile), f \in ForceFans :
          update_miner_stats(ThermalIP, t, f, None)
    \/ calculate_optimal_frequency(ThermalIP)
    \/ \E e \in BOOLEAN : set_auto_tune(ThermalIP, e)
    \/ \E e \in BOOLEAN : set_global_auto_tune(e)
    \/ \E q \in ForceInputs : force_frequency(ThermalIP, q)
    \/ reset_miner(ThermalIP)

SpecForce == ForceInit /\ [][ForceNext]_vars

(***************************************************************************)
(* C31. An evaluation of a miner whose temperature is at or above the      *)
(* critical threshold of its profile leaves the miner in emergency         *)
(* cooldown and returns frequency 0 and fan 100, whether auto-tune is on   *)
(* or off (for the miner or globally) and however recent the last          *)
(* adjustment is; unless a cooldown was already running, the evaluation    *)
(* itself starts the shutdown: it stamps the cooldown with the current     *)
(* time and sets the state's frequency to 0.                               *)
(***************************************************************************)
C31_CriticalAlwaysShutsDown ==
    [][(Evaluated /\ Before.current_temp >= Before.profile.critical_temp) =>
          /\ After.in_emergency_cooldown
          /\ ret'.freq = 0
          /\ ret'.fan = Some(100)
          /\ ret'.reason \in EmergencyReasons
          /\ ~check_emergency_cooldown(Before, now).result =>
                 /\ ret'.reason = "EMERGENCY: Critical temp"
                 /\ After.cooldown_started = Some(now)
                 /\ After.current_freq = 0]_vars

\* a shutdown was triggered with auto-tune off for the miner and an
\* adjustment made in the same interval
C31_Witness ==
    /\ ret.reason = "EMERGENCY: Critical temp"
    /\ ~thermal_states[ThermalIP].auto_tune_enabled
    /\ global_auto_tune_enabled
    /\ thermal_states[ThermalIP].last_adjustment = Some(now)
    /\ thermal_states[ThermalIP].cooldown_started = Some(now)
    /\ thermal_states[ThermalIP].current_freq = 0

\* a shutdown was triggered with auto-tune off globally, after an earlier
\* cooldown had run out
C31_WitnessGlobal ==
    /\ ret.reason = "EMERGENCY: Critical temp"
    /\ thermal_states[ThermalIP].auto_tune_enabled
    /\ ~global_auto_tune_enabled
    /\ now >= cooldown_duration
    /\ thermal_states[ThermalIP].cooldown_started = Some(now)

(***************************************************************************)
(* app.py: the per-miner result lists of batch_settings.  A device answers *)
(* apply_settings by accepting the settings (True), by refusing them       *)
(* (False), or the call raises.                                            *)
(***************************************************************************)
DeviceAnswers == {"accepted", "refused", "raised"}

\* The loop of batch_settings over ips[i..] (lines 1367-1384): the success
\* and failed lists it leaves; answer is what each contacted device does
RECURSIVE batch_results(_, _, _, _, _)
batch_results(reg, ips, answer, i, results) ==
    IF i > Len(ips) THEN results
    ELSE batch_results(reg, ips, answer, i + 1,
             IF ips[i] \in DOMAIN reg /\ is_esp_miner(reg[ips[i]].type)
             THEN IF answer[ips[i]] = "raised"
                  THEN [results EXCEPT !.failed = Append(@, ips[i])]
                  ELSE [results EXCEPT !.success = Append(@, ips[i])]
             ELSE [results EXCEPT !.failed = Append(@, ips[i])])

(***************************************************************************)
(* Specification SpecBatch: batch settings requests to a fleet of one ESP  *)
(* miner and one CGMiner device, with every answer of the ESP device.      *)
(***************************************************************************)
BatchTargets ==
    {<<>>, <<RealIP>>, <<SecondIP>>, <<UnknownIP>>, <<RealIP, SecondIP>>,
     <<SecondIP, RealIP>>, <<UnknownIP, RealIP>>, <<RealIP, UnknownIP>>}

BatchSettings ==
    {<<>>, ("frequency" :> 500), ("frequency" :> 1001), ("fanspeed" :> 50),
     ("coreVoltage" :> 1200), ("frequency" :> 900) @@ ("fanSpeed" :> 100)}

BatchInit ==
    /\ now = 0
    /\ thermal_states = <<>>
    /\ global_auto_tune_enabled = TRUE
    /\ ret = NoRet
    /\ emergency_at = <<>>
    /\ AlertsIdle
    /\ FleetIdle
    /\ ServerIdle

\* batch_settings (POST /api/batch/settings) with the response body
batch_settings_response(ips, settings, answer) ==
    LET invalid == batch_validation(ips, settings)
    IN /\ http' = [handler |-> "batch_settings", ips |-> ips, data |-> settings,
                   code |-> IF invalid # 0 THEN invalid ELSE 200,
                   answer |-> answer,
                   results |-> IF invalid # 0 THEN [success |-> <<>>, failed |-> <<>>]
                               ELSE batch_results(miners, ips, answer, 1,
                                        [success |-> <<>>, failed |-> <<>>])]
       /\ net_calls' = IF invalid # 0 THEN <<>>
                       ELSE batch_calls(miners, ips, settings, 1)
       /\ ret' = NoRet
       /\ last_poll' = NoPoll
       /\ UNCHANGED <<now, thermal_states, global_auto_tune_enabled, emergency_at,
                      alertVars, miners, miner_alert_states,
                      overheat_recovery_states, monitor, streak,
                      monitoring_active, monitoring_thread, loops, threads, lock,
                      db, btc_fetcher>>

BatchNext ==
    \/ discover_miners(RealIP, "BitAxe")
    \/ discover_miners(SecondIP, "Antminer S19")
    \/ \E ips \in BatchTargets, settings \in BatchSettings,
          answer \in [{RealIP} -> DeviceAnswers] :
          batch_settings_response(ips, settings, answer)

SpecBatch == BatchInit /\ [][BatchNext]_vars

\* The ESP miners of the registry that the last batch request addressed
BatchContacted ==
    {ip \in SeqRange(http.ips) :
        ip \in DOMAIN miners /\ is_esp_miner(miners[ip].type)}

(***************************************************************************)
(* C32. In the response to a batch settings request that passed            *)
(* validation, every miner of the success list is one whose device         *)
(* accepted the settings, and every contacted miner whose device refused   *)
(* them (apply_settings returned false) is in the failed list.             *)
(***************************************************************************)
C32_SucceededOnlyIfAccepted ==
    (http.handler = "batch_settings" /\ http.code = 200) =>
        /\ \A ip \in SeqRange(http.results.success) :
               ip \in BatchContacted /\ http.answer[ip] = "accepted"
        /\ \A ip \in BatchContacted :
               http.answer[ip] = "refused" => ip \in SeqRange(http.results.failed)

(***************************************************************************)
(* Specification SpecControl: the controllers of one registered BitAxe.    *)
(* The monitoring loop applies the mining schedule stored in the database  *)
(* and polls the miner, whose device reports a temperature, a fan speed    *)
(* and the frequency it runs at; the operator forces a frequency, resets   *)
(* the miner and switches its auto-tune.  The database holds no schedule   *)
(* or one schedule for the whole day, and the profitability gates are      *)
(* open.                                                                   *)
(***************************************************************************)
MaxControlTime == 2
MaxControlAlerts == 5

\* What the device may answer: cool with a low fan at the minimum
\* frequency, at the critical threshold, at the warning threshold while
\* running above the profile's range, cool while running below it, and
\* shut down by its own overheat protection
ControlStatuses ==
    {Status("online", Some(50), Some(400), Some(30)),
     Status("online", Some(68), Some(485), Some(100)),
     Status("online", Some(62), Some(700), Some(100)),
     Status("online", Some(50), Some(300), Some(30)),
     Status("overheated", Some(38), Some(485), Some(100))}

\* Target frequencies of the stored whole-day schedule: none stored, a
\* pause, a reduced frequency
ControlSchedules == {None, Some(0), Some(450)}

\* Frequencies the operator asks for
ControlForced == {50, 1000}

\* The time of day and the day at which the loop runs
ControlTime == <<12, 0>>
ControlDay == "Monday"

ControlInit ==
    /\ now = 0
    /\ thermal_states = (RealIP :> ThermalState("BitAxe"))
    /\ global_auto_tune_enabled = TRUE
    /\ ret = NoRet
    /\ emergency_at = (RealIP :> None)
    /\ alert_mgr = AlertManager
    /\ clock_origin = 0
    /\ miners = (RealIP :> Miner("BitAxe", FALSE, None))
    /\ miner_alert_states = <<>>
    /\ overheat_recovery_states = {}
    /\ monitor = [phase |-> "schedule", pending |-> {}]
    /\ net_calls = <<>>
    /\ last_poll = NoPoll
    /\ streak = (RealIP :> NoStreak)
    /\ http = NoRequest
    /\ monitoring_active = FALSE
    /\ monitoring_thread = None
    /\ loops = <<>>
    /\ threads = <<>>
    /\ lock = None
    /\ btc_fetcher = BitcoinDataFetcher
    /\ \E f \in ControlSchedules :
           db = IF f = None THEN NoDb
                ELSE add_mining_schedule(NoDb, <<0, 0>>, <<23, 59>>, Val(f), None)

\* What a request handler of the thermal endpoints leaves alone
ControlFrame == <<now, global_auto_tune_enabled, emergency_at, alertVars, miners,
                  miner_alert_states, overheat_recovery_states, monitor, streak,
                  monitoring_active, monitoring_thread, loops, threads, lock,
                  db, btc_fetcher>>

\* MiningScheduler.should_mine_now as _apply_mining_schedule calls it
control_decision == should_mine_now(db, ControlTime, ControlDay, TRUE)

\* FleetManager._apply_mining_schedule on the stored schedule
control_mining_schedule ==
    /\ monitor.phase = "schedule"
    /\ apply_mining_schedule(control_decision)

\* force_frequency (POST /api/thermal/force-frequency)
force_frequency_request(miner_ip, frequency) ==
    LET code == IF frequency < 100 \/ frequency > 1000 THEN 400
                ELSE IF miner_ip \in DOMAIN thermal_states THEN 200
                ELSE 404
    IN /\ thermal_states' =
              IF code = 200
              THEN [thermal_states EXCEPT ![miner_ip] =
                       force_frequency_state(@, frequency)]
              ELSE thermal_states
       /\ http' = [handler |-> "force_frequency", ips |-> <<miner_ip>>,
                   data |-> [frequency |-> frequency], code |-> code]
       /\ net_calls' = <<>>
       /\ ret' = NoRet
       /\ last_poll' = NoPoll
       /\ UNCHANGED ControlFrame

\* reset_thermal (POST /api/thermal/reset/<ip>)
reset_thermal(ip) ==
    /\ thermal_states' =
           IF ip \in DOMAIN thermal_states
           THEN [thermal_states EXCEPT ![ip] = reset_miner_state(@)]
           ELSE thermal_states
    /\ http' = [handler |-> "reset_thermal", ips |-> <<ip>>, data |-> <<>>,
                code |-> 200]
    /\ net_calls' = <<>>
    /\ ret' = NoRet
    /\ last_poll' = NoPoll
    /\ UNCHANGED ControlFrame

\* set_auto_tune (POST /api/thermal/auto-tune) for one miner
set_auto_tune_request(miner_ip, enabled) ==
    /\ thermal_states' =
           IF miner_ip \in DOMAIN thermal_states
           THEN [thermal_states EXCEPT ![miner_ip].auto_tune_enabled = enabled]
           ELSE thermal_states
    /\ http' = [handler |-> "set_auto_tune", ips |-> <<miner_ip>>,
                data |-> [enabled |-> enabled], code |-> 200]
    /\ net_calls' = <<>>
    /\ ret' = NoRet
    /\ last_poll' = NoPoll
    /\ UNCHANGED ControlFrame

ControlNext ==
    \/ control_mining_schedule
    \/ update_all_miners
    \/ \E device \in ControlStatuses, ok \in BOOLEAN :
          update_miner(RealIP, device, ok, MaxControlAlerts)
    \/ \E d \in PollSleeps : monitor_sleep(d, MaxControlTime)
    \/ \E frequency \in ControlForced : force_frequency_request(RealIP, frequency)
    \/ reset_thermal(RealIP)
    \/ \E enabled \in BOOLEAN : set_auto_tune_request(RealIP, enabled)

SpecControl == ControlInit /\ [][ControlNext]_vars

\* The frequencies the settings commands of a list of device calls program
\* into the miner ip
FrequenciesSent(calls, ip) ==
    {calls[i].settings.frequency :
        i \in {j \in 1..Len(calls) :
                  /\ calls[j].ip = ip
                  /\ calls[j].op = "apply_settings"
                  /\ "frequency" \in DOMAIN calls[j].settings}}

\* An emergency cooldown of the miner is running
CoolingDown(ip) ==
    /\ thermal_states[ip].in_emergency_cooldown
    /\ now - Val(thermal_states[ip].cooldown_started) < cooldown_duration

(***************************************************************************)
(* C33. A step of the monitoring loop that starts while a miner is in      *)
(* emergency cooldown programs no frequency above the minimum safe         *)
(* frequency (the profile's minimum, 400 MHz) into that miner, be it by    *)
(* applying the schedule, by re-applying the stock settings or by a        *)
(* thermal adjustment.                                                     *)
(***************************************************************************)
C33_CooldownKeepsMinimum ==
    [][\A ip \in DOMAIN thermal_states :
          CoolingDown(ip) =>
              \A f \in FrequenciesSent(net_calls', ip) :
                  f <= thermal_states[ip].profile.min_freq]_vars

\* The scheduler pauses mining or asks for a reduced frequency
SchedulerRestricts ==
    ~control_decision.should_mine \/ control_decision.target_frequency > 0

\* The frequency _apply_mining_schedule programs into a miner of this type
\* on the scheduler's decision
SchedulerFrequency(miner_type) ==
    validate_frequency(miner_type,
        IF ~control_decision.should_mine THEN 100
        ELSE control_decision.target_frequency)

\* The frequencies the thermal adjustment of the last poll programmed into
\* the polled miner
ThermalFrequencies ==
    IF last_poll = NoPoll \/ ret = NoRet \/ miners[last_poll.ip].last_status = None
    THEN {}
    ELSE FrequenciesSent(
             frequency_step(last_poll.ip, miners[last_poll.ip].type,
                            Val(miners[last_poll.ip].last_status), ret,
                            alert_mgr, now, clock_origin).calls,
             last_poll.ip)

(***************************************************************************)
(* C34. While the scheduler pauses mining or asks for a reduced frequency, *)
(* the thermal adjustment of a poll programs no frequency above the one    *)
(* the schedule application of the same cycle programmed into the miner    *)
(* (a miner the schedule application reaches: an ESP miner with a cached   *)
(* status).                                                                *)
(***************************************************************************)
C34_ThermalBelowSchedule ==
    [][(/\ SchedulerRestricts
        /\ last_poll' # NoPoll
        /\ is_esp_miner(miners[last_poll'.ip].type)
        /\ miners[last_poll'.ip].last_status # None)
       => \A f \in ThermalFrequencies' :
              f <= SchedulerFrequency(miners[last_poll'.ip].type)]_vars

\* An earlier poll of the miner found it overheated and restarted it at time t
\* (the restart command succeeded, so the recovery alert was raised)
RestartedAt(ip, t) ==
    \E i \in 1..Len(alert_mgr.fired) :
        /\ alert_mgr.fired[i].alert_type = "overheat_recovery"
        /\ alert_mgr.fired[i].miner_ip = ip
        /\ alert_mgr.fired[i].timestamp = t

(***************************************************************************)
(* C35. Within one overheated episode of a miner the monitor issues at     *)
(* most one automatic restart: a poll that finds the miner overheated      *)
(* directly after a poll that found it overheated and restarted it (the    *)
(* polls of one miner are one update interval apart, so the miner has not  *)
(* left the overheated state in between) issues no second restart.         *)
(***************************************************************************)
C35_OneRestartPerEpisode ==
    (/\ last_poll # NoPoll
     /\ last_poll.status = "overheated"
     /\ RestartedAt(last_poll.ip, now - UPDATE_INTERVAL))
    => ~RestartIssued

\* The last request was a force_frequency that succeeded: no reset and no
\* auto-tune request has been made since
Forced == http.handler = "force_frequency" /\ http.code = 200

(***************************************************************************)
(* C36. From a successful force_frequency(ip, f) until the next reset or   *)
(* auto-tune request, through any number of polls, the frequency of the    *)
(* miner's thermal state is f clamped into the range of the profile; it    *)
(* may be 0 once an emergency shutdown has been triggered.                 *)
(***************************************************************************)
C36_ForcedFrequencyHolds ==
    Forced =>
        LET ip == http.ips[1]
            s == thermal_states[ip]
        IN \/ s.current_freq =
                  Max(s.profile.min_freq, Min(s.profile.max_freq, http.data.frequency))
           \/ emergency_at[ip] # None /\ s.current_freq = 0

(***************************************************************************)
(* C37. Every frequency that a step of the monitoring loop programs into   *)
(* a miner (by a thermal adjustment, by applying the schedule or by        *)
(* re-applying the stock settings) lies within [min_freq, max_freq] of     *)
(* the miner's profile, whatever frequency the device reported.            *)
(***************************************************************************)
C37_CommandsWithinRange ==
    \A ip \in DOMAIN miners :
        \A f \in FrequenciesSent(net_calls, ip) :
            /\ f >= get_profile(miners[ip].type).min_freq
            /\ f <= get_profile(miners[ip].type).max_freq

\* the device reported 700 MHz at the warning threshold: the thermal
\* adjustment asked for 670 and 600, the profile's maximum, was programmed
C37_Witness ==
    /\ last_poll # NoPoll
    /\ Val(miners[last_poll.ip].last_status).frequency = Some(700)
    /\ ret.freq = 670
    /\ ThermalFrequencies = {600}
    /\ 600 \in FrequenciesSent(net_calls, last_poll.ip)

\* the device reported 300 MHz while cool: the adjustment asked for 315 and
\* 400, the profile's minimum, was programmed
C37_WitnessBelow ==
    /\ last_poll # NoPoll
    /\ Val(miners[last_poll.ip].last_status).frequency = Some(300)
    /\ ret.freq = 315
    /\ 400 \in FrequenciesSent(net_calls, last_poll.ip)

\* the schedule application paused mining: 100 MHz clamped to 400
C37_WitnessPaused ==
    /\ monitor.phase = "update"
    /\ ~control_decision.should_mine
    /\ FrequenciesSent(net_calls, RealIP) = {400}

\* a poll re-applied the stock settings after an overheat: 485 MHz
C37_WitnessStock ==
    /\ last_poll # NoPoll
    /\ last_poll.status = "online"
    /\ 485 \in FrequenciesSent(net_calls, RealIP)
    /\ 485 \notin ThermalFrequencies

(***************************************************************************)
(* C38. Once a removal request for a miner has completed, nothing is sent  *)
(* to its address until it is registered again: every status poll a poll   *)
(* worker sends goes to a miner that is in the registry at that moment,    *)
(* also when the cycle had taken its snapshot before the removal.          *)
(* Checked in SpecAccess, where the snapshot of update_all_miners and the  *)
(* polls made from it are separate steps.                                  *)
(***************************************************************************)
C38_NoContactAfterRemoval ==
    \A i \in 1..Len(net_calls) :
        net_calls[i].op = "get_status" => net_calls[i].ip \in DOMAIN miners

(***************************************************************************)
(* Specification SpecStrategy: a request thread rewrites the mining        *)
(* schedule (StrategyOptimizer.apply_strategy or                           *)
(* MiningScheduler.create_schedule_from_rates) while the monitoring loop   *)
(* evaluates should_mine_now.  Neither method takes a lock or opens a      *)
(* transaction: every delete_mining_schedule and add_mining_schedule is a  *)
(* store call of its own, and the loop can run between any two of them.    *)
(***************************************************************************)
Writer == "writer1"
StrategyFreqs == {0, 525}
StrategyTimes == {<<0, 30>>, <<14, 0>>}

\* The 24-entry hourly plans with one frequency per part of the day
StrategyPlans ==
    {[i \in 1..24 |-> [hour |-> i - 1, frequency |-> f[Segment(i - 1)]]] :
        f \in [1..4 -> StrategyFreqs]}

NoWrite == [pc |-> "idle", op |-> "none", old |-> <<>>, rows |-> <<>>, i |-> 0]
NotEvaluated == [phase |-> "update", pending |-> {}, seen |-> <<>>,
                 decision |-> <<>>]

StrategyInit ==
    /\ now = 0
    /\ thermal_states = <<>>
    /\ global_auto_tune_enabled = TRUE
    /\ ret = NoRet
    /\ emergency_at = <<>>
    /\ AlertsIdle
    /\ miners = (RealIP :> Miner("BitAxe", FALSE,
                               Some(Status("online", Some(55), Some(485), Some(50)))))
    /\ miner_alert_states = <<>>
    /\ overheat_recovery_states = {}
    /\ monitor = NotEvaluated
    /\ net_calls = <<>>
    /\ last_poll = NoPoll
    /\ streak = <<>>
    /\ http = NoRequest
    /\ monitoring_active = TRUE
    /\ monitoring_thread = Some(WorkerName)
    /\ loops = <<"update">>
    /\ threads = (Writer :> NoWrite)
    /\ lock = None
    /\ db = set_tou_rates_db(NoDb, <<Rate(<<0, 0>>, <<14, 0>>, 9),
                                     Rate(<<14, 0>>, <<23, 59>>, 17)>>).db
    /\ btc_fetcher = BitcoinDataFetcher

StrategyFrame == <<now, thermal_states, global_auto_tune_enabled, ret,
                   emergency_at, alertVars, miners, miner_alert_states,
                   overheat_recovery_states, last_poll, streak,
                   monitoring_active, monitoring_thread, loops, lock,
                   btc_fetcher>>

\* apply_strategy (POST /api/energy/strategies/apply), lines 3036-3047:
\* the request arrives with a plan; the blocks of apply_strategy, lines
\* 2029-2043, are computed from the plan alone
strategy_request(hourly_plan) ==
    /\ threads[Writer].pc = "idle"
    /\ threads' = [threads EXCEPT ![Writer] =
                      [pc |-> "clear", op |-> "apply_strategy",
                       old |-> db.mining_schedules,
                       rows |-> apply_strategy_db(NoDb, hourly_plan).mining_schedules,
                       i |-> 1]]
    /\ monitor' = NotEvaluated
    /\ net_calls' = <<>>
    /\ UNCHANGED <<db, http, StrategyFrame>>

\* create_schedule_from_rates, line 1857: the rates are read
rates_request(max_rate_threshold, low_frequency, high_frequency) ==
    /\ threads[Writer].pc = "idle"
    /\ threads' = [threads EXCEPT ![Writer] =
                      [pc |-> "clear", op |-> "create_schedule_from_rates",
                       old |-> db.mining_schedules,
                       rows |-> schedule_rates(NoDb, db.energy_rates, 1,
                                    max_rate_threshold, low_frequency,
                                    high_frequency).mining_schedules,
                       i |-> 1]]
    /\ monitor' = NotEvaluated
    /\ net_calls' = <<>>
    /\ UNCHANGED <<db, http, StrategyFrame>>

\* apply_strategy, lines 2023-2024, and create_schedule_from_rates, lines
\* 1860-1861: one delete_mining_schedule of the clearing loop
strategy_delete ==
    /\ threads[Writer].pc = "clear"
    /\ db.mining_schedules # <<>>
    /\ db' = [db EXCEPT !.mining_schedules = Tail(@)]
    /\ net_calls' = <<>>
    /\ UNCHANGED <<threads, monitor, http, StrategyFrame>>

\* the clearing loop ends and the adding loop begins
strategy_cleared ==
    /\ threads[Writer].pc = "clear"
    /\ db.mining_schedules = <<>>
    /\ threads' = [threads EXCEPT ![Writer].pc = "add"]
    /\ net_calls' = <<>>
    /\ UNCHANGED <<db, monitor, http, StrategyFrame>>

\* apply_strategy, lines 2046-2057, and create_schedule_from_rates, lines
\* 1864-1873: one add_mining_schedule of the adding loop
strategy_add ==
    /\ threads[Writer].pc = "add"
    /\ threads[Writer].i <= Len(threads[Writer].rows)
    /\ LET row == threads[Writer].rows[threads[Writer].i]
       IN db' = add_mining_schedule(db, row.start_time, row.end_time,
                                    row.target_frequency, row.day_of_week)
    /\ threads' = [threads EXCEPT ![Writer].i = @ + 1]
    /\ net_calls' = <<>>
    /\ UNCHANGED <<monitor, http, StrategyFrame>>

\* the adding loop ends and the request is answered
strategy_done ==
    /\ threads[Writer].pc = "add"
    /\ threads[Writer].i > Len(threads[Writer].rows)
    /\ threads' = [threads EXCEPT ![Writer] = NoWrite]
    /\ http' = [handler |-> threads[Writer].op, ips |-> <<>>,
                data |-> threads[Writer].rows, code |-> 200]
    /\ net_calls' = <<>>
    /\ UNCHANGED <<db, monitor, StrategyFrame>>

\* FleetManager._apply_mining_schedule at a time of day of a Monday:
\* should_mine_now reads the schedule rows in one get_mining_schedules
strategy_monitor(current_time) ==
    LET decision == should_mine_now(db, current_time, "Monday", TRUE)
    IN /\ monitor' = [phase |-> "schedule", pending |-> {},
                      seen |-> db.mining_schedules, decision |-> decision]
       /\ net_calls' = mining_schedule_calls(miners, decision)
       /\ UNCHANGED <<db, threads, http, StrategyFrame>>

StrategyNext ==
    \/ \E hourly_plan \in StrategyPlans : strategy_request(hourly_plan)
    \/ \E high_frequency \in StrategyFreqs : rates_request(15, 0, high_frequency)
    \/ strategy_delete
    \/ strategy_cleared
    \/ strategy_add
    \/ strategy_done
    \/ \E current_time \in StrategyTimes : strategy_monitor(current_time)

SpecStrategy == StrategyInit /\ [][StrategyNext]_vars

\* The schedule the request in progress is writing, once complete
NewSchedule == threads[Writer].rows

(***************************************************************************)
(* C39. A monitor cycle that evaluates should_mine_now while a strategy    *)
(* application or a schedule re-creation is in progress sees either the    *)
(* complete old schedule or the complete new one, never an empty or        *)
(* partially written one.                                                  *)
(***************************************************************************)
C39_ScheduleSeenWhole ==
    (threads[Writer].pc # "idle" /\ monitor.phase = "schedule") =>
        monitor.seen \in {threads[Writer].old, NewSchedule}

(***************************************************************************)
(* Specification SpecConfig: POST /api/alerts/config.  The configuration   *)
(* is kept field by field, each value Some(v) or None (Python's None), so  *)
(* that a field overwritten by None differs from every value it can hold.  *)
(***************************************************************************)
MaxFields == 2

ConfigFields ==
    {"telegram_bot_token", "telegram_chat_id", "telegram_enabled",
     "enabled_alert_types", "miner_overrides", "quiet_hours_enabled",
     "quiet_hours_start", "quiet_hours_end", "daily_report_enabled",
     "daily_report_time", "high_temp_threshold", "low_hashrate_threshold_pct"}

\* AlertConfig.__init__, the fields the endpoint can set
ConfigDefaults ==
    [telegram_bot_token |-> Some(""),
     telegram_chat_id |-> Some(""),
     telegram_enabled |-> Some(AlertConfig.telegram_enabled),
     enabled_alert_types |-> Some(AlertConfig.enabled_alert_types),
     miner_overrides |-> Some(<<>>),
     quiet_hours_enabled |-> Some(AlertConfig.quiet_hours_enabled),
     quiet_hours_start |-> Some(AlertConfig.quiet_hours_start),
     quiet_hours_end |-> Some(AlertConfig.quiet_hours_end),
     daily_report_enabled |-> Some(FALSE),
     daily_report_time |-> Some(<<8, 0>>),
     high_temp_threshold |-> Some(70),
     low_hashrate_threshold_pct |-> Some(20)]

\* A request body that supplies every field
FullRequest ==
    [telegram_bot_token |-> "token",
     telegram_chat_id |-> "chat",
     telegram_enabled |-> FALSE,
     enabled_alert_types |-> ("miner_offline" :> FALSE),
     miner_overrides |-> (RealIP :> 85),
     quiet_hours_enabled |-> TRUE,
     quiet_hours_start |-> <<23, 0>>,
     quiet_hours_end |-> <<6, 0>>,
     daily_report_enabled |-> TRUE,
     daily_report_time |-> <<9, 0>>,
     high_temp_threshold |-> 75,
     low_hashrate_threshold_pct |-> 30]

\* The request bodies: every field, or at most MaxFields of them
ConfigRequests ==
    {[k \in ks |-> FullRequest[k]] :
        ks \in {s \in SUBSET ConfigFields : Cardinality(s) <= MaxFields}
               \cup {ConfigFields}}

\* dict.get(key): the value, or None
Get(data, k) == IF k \in DOMAIN data THEN Some(data[k]) ELSE None

\* alert_config, lines 3505-3518, and AlertManager.configure: the handler
\* passes every argument, absent fields as None and telegram_enabled as
\* True; configure tests the first three and the thresholds for None and
\* the others for being passed; enabled_alert_types.update(None) raises
\* TypeError, which ends configure before the remaining fields and the save
alert_config_config(c, data) ==
    LET keep(k) == IF Get(data, k) # None THEN Get(data, k) ELSE c[k]
        first == [c EXCEPT
                    !.telegram_bot_token = keep("telegram_bot_token"),
                    !.telegram_chat_id = keep("telegram_chat_id"),
                    !.telegram_enabled =
                        IF "telegram_enabled" \in DOMAIN data
                        THEN Some(data["telegram_enabled"]) ELSE Some(TRUE)]
    IN IF Get(data, "enabled_alert_types") = None
       THEN [config |-> first, code |-> 500, saved |-> FALSE]
       ELSE [config |->
                [first EXCEPT
                    !.enabled_alert_types =
                        Some([ty \in AlertTypes |->
                                 IF ty \in DOMAIN data["enabled_alert_types"]
                                 THEN data["enabled_alert_types"][ty]
                                 ELSE Val(c.enabled_alert_types)[ty]]),
                    !.miner_overrides = Get(data, "miner_overrides"),
                    !.quiet_hours_enabled = Get(data, "quiet_hours_enabled"),
                    !.quiet_hours_start = Get(data, "quiet_hours_start"),
                    !.quiet_hours_end = Get(data, "quiet_hours_end"),
                    !.daily_report_enabled = Get(data, "daily_report_enabled"),
                    !.daily_report_time = Get(data, "daily_report_time"),
                    !.high_temp_threshold = keep("high_temp_threshold"),
                    !.low_hashrate_threshold_pct =
                        keep("low_hashrate_threshold_pct")],
             code |-> 200, saved |-> TRUE]

ConfigInit ==
    /\ now = 0
    /\ thermal_states = <<>>
    /\ global_auto_tune_enabled = TRUE
    /\ ret = NoRet
    /\ emergency_at = <<>>
    /\ alert_mgr = [AlertManager EXCEPT !.config = ConfigDefaults]
    /\ clock_origin = 0
    /\ FleetIdle
    /\ http = [handler |-> "none", request |-> <<>>, before |-> ConfigDefaults,
               code |-> 0, saved |-> FALSE]
    /\ monitoring_active = FALSE
    /\ monitoring_thread = None
    /\ loops = <<>>
    /\ threads = <<>>
    /\ lock = None
    /\ db = NoDb
    /\ btc_fetcher = BitcoinDataFetcher

\* alert_config (POST /api/alerts/config)
alert_config(data) ==
    LET r == alert_config_config(alert_mgr.config, data)
    IN /\ alert_mgr' = [alert_mgr EXCEPT !.config = r.config]
       /\ http' = [handler |-> "alert_config", request |-> data,
                   before |-> alert_mgr.config, code |-> r.code,
                   saved |-> r.saved]
       /\ UNCHANGED <<now, thermalVars, clock_origin, fleetVars,
                      monitoring_active, monitoring_thread, loops, threads,
                      lock, db, btc_fetcher>>

\* alert_config (GET /api/alerts/config): the configuration is read
get_alert_config ==
    /\ http' = [handler |-> "get_alert_config", request |-> <<>>,
                before |-> alert_mgr.config, code |-> 200, saved |-> FALSE]
    /\ UNCHANGED <<now, thermalVars, alertVars, fleetVars,
                   monitoring_active, monitoring_thread, loops, threads,
                   lock, db, btc_fetcher>>

ConfigNext ==
    \/ \E data \in ConfigRequests : alert_config(data)
    \/ get_alert_config

SpecConfig == ConfigInit /\ [][ConfigNext]_vars

(***************************************************************************)
(* C40. A POST to the alert configuration endpoint that supplies only some *)
(* fields succeeds and changes exactly those fields: every field absent    *)
(* from the request keeps the value it had before the request.             *)
(***************************************************************************)
C40_AbsentFieldsKept ==
    http.handler = "alert_config" =>
        /\ http.code = 200
        /\ \A k \in ConfigFields \ DOMAIN http.request :
               alert_mgr.config[k] = http.before[k]

=============================================================================
